---- MODULE Spec2Model ----
(***************************************************************************)
(* A model of the status-tray broker (src/src/extension.js).               *)
(*                                                                         *)
(*   Spec      the Registry (StatusNotifierWatcher) with the extension's   *)
(*             connection map: registration, bus-identity loss, startup    *)
(*             reconciliation, the health check and teardown.              *)
(*   SpecConn  one ItemConnection (TrayItem): proxy and direct-call paths, *)
(*             identity resolution, icon resolution, menu-open, destroy.   *)
(*                                                                         *)
(* Strings are sequences of tokens: a token is an indivisible run of       *)
(* characters ("/", ":", "run", "org.x", ...), so that prefix tests,       *)
(* concatenation and the path pattern are computed, not assumed.           *)
(***************************************************************************)
EXTENDS Integers, Sequences, FiniteSets, TLC

(***************************************************************************)
(* Bounds.                                                                 *)
(***************************************************************************)
\* number of RegisterStatusNotifierItem calls the broker receives
MaxCalls == 1
\* number of outside events (property changes, NewIcon signals, settings
\* changes, menu openings) one connection receives
MaxEvents == 1

\* the menu activations a behaviour may hold
MaxClicks == 2

(***************************************************************************)
(* Strings.                                                                *)
(***************************************************************************)
Num(n) == CASE n = 1 -> "1" [] n = 2 -> "2" [] n = 3 -> "3" [] OTHER -> "4"

\* a unique (connection-scoped) bus name, ":1.<n>"
BusName(n) == <<":", Num(n)>>

\* the connections on the bus, ":1.1" and ":1.2"
BusNames == {BusName(1), BusName(2)}

\* the well-known bus name an application may own
WellKnownName == <<"org.x">>

\* a well-known bus name with a hyphen, as in
\* org.kde.StatusNotifierItem-4077-1
HyphenName == <<"org.x-1">>

DEFAULT_ITEM_OBJECT_PATH == <<"/", "StatusNotifierItem">>

\* an object path whose last segment names the application
CustomPath == <<"/", "org", "/", "Foo">>

Paths == {DEFAULT_ITEM_OBJECT_PATH, CustomPath}

\* String.prototype.startsWith for a one-token prefix
StartsWith(s, tok) == Len(s) > 0 /\ s[1] = tok

\* String.prototype.indexOf('/'), 0-based, -1 when absent
IndexOfSlash(s) ==
    IF \E i \in 1..Len(s) : s[i] = "/"
    THEN (CHOOSE i \in 1..Len(s) : s[i] = "/" /\ \A j \in 1..(i - 1) : s[j] # "/") - 1
    ELSE -1

\* the last non-empty segment of s.split('/'), <<>> when there is none
LastSegment(s) ==
    LET nonSlash == {i \in 1..Len(s) : s[i] # "/"}
    IN IF nonSlash = {} THEN <<>>
       ELSE LET e == CHOOSE i \in nonSlash : \A j \in nonSlash : j <= i
                b == CHOOSE i \in 1..e :
                        /\ \A j \in i..e : s[j] # "/"
                        /\ (i = 1 \/ s[i - 1] = "/")
            IN SubSeq(s, b, e)

\* BUS_ADDRESS_REGEX.test(service): dotted names; a token of the form
\* "org.x" stands for such a name, ":"-prefixed and "/"-prefixed strings fail
BUS_ADDRESS_REGEX(s) == Len(s) = 1 /\ s[1] \in {"org.x"}

None == <<>>

(***************************************************************************)
(* State.                                                                  *)
(***************************************************************************)
VARIABLES
    \* ---- the message bus (environment)
    busState,             \* bus name -> "alive" | "dead"
    lossPending,          \* uniqueIds whose NameOwnerChanged(newOwner='') is queued
    \* ---- StatusNotifierWatcher
    items,                \* _items: insertion-ordered Map uniqueId -> itemInfo
    nameOwnerChangedIds,  \* _nameOwnerChangedIds: uniqueIds with a subscription
    cancelled,            \* _cancellable.is_cancelled()
    healthCheckTimeoutId, \* TRUE while the 8 s timer is pending
    pendingDelayIds,      \* _pendingDelayIds: the _delay sources still installed
    hc,                   \* the _healthCheckAllItems coroutine
    seeks,                \* the _seekExistingItems coroutines
    resolving,            \* register calls awaiting _resolveNameOwner
    calls,                \* register calls received so far
    \* ---- StatusTrayExtension
    enabled,              \* _settings and _watcher are set
    extItems,             \* extension._items: insertion-ordered uniqueIds
    disabledApps,         \* settings 'disabled-apps'
    \* ---- observations
    emitted,              \* the item signals the last step emitted, in order
    answered,             \* items that passed every probe of the running health check
    hcAct,                \* the stale item the last step handled, or NoAct
    regArg,               \* the uniqueId the last step gave _registerItemInternal
    \* ---- one TrayItem (ItemConnection) and the item it shows
    itemProps,            \* the remote item's properties
    tiProxy,              \* _proxy: "pending" | "ready" | "failed" | "null"
    tiCancellable,        \* _cancellable: "live" | "null"
    tiSignalIds,          \* TRUE while the bus signals are subscribed
    tiAppId,              \* _appId
    tiIconThemePath,      \* _iconThemePath
    tiMenuPath,           \* _menuPath
    tiFallbackOverrideIcon, \* _fallbackOverrideIcon
    tiIcon,               \* the source the St.Icon shows
    stIcon,               \* content, gicon and icon_name of _icon
    tiMenu,               \* the menu: "placeholder" | "loading" | "built"
    inflight,             \* the connection's remote calls awaiting their callback
    iconOverrides,        \* settings 'icon-overrides'
    iconFallbackOverrides, \* settings 'icon-fallback-overrides'
    reorderTimeoutId,     \* extension._reorderTimeoutId is set
    reorderSources,       \* the pending timeout sources of _scheduleReorder
    events,               \* outside events the connection received so far
    notified,             \* the 'appid-resolved' emissions of the last step
    \* ---- the TrayItem's menu (MenuClient)
    layout,               \* the layout the item's menu object answers with
    menuItems,            \* the entries of this.menu, in order
    tiLastMenuItemType,   \* _lastMenuItemType
    clicks,               \* menu activations so far
    menuAct,              \* the menu handler that ran last, and its reply
    lastBuilt,            \* the entries the last successful layout gave
    \* ---- method calls to the watcher
    incoming,             \* the RegisterStatusNotifierItem message on its way
    hostReplies,          \* the replies to RegisterStatusNotifierHost, in order
    \* the pixel codec and the effect preview (extension.js and prefs.js)
    pixmaps,              \* the widths of the IconPixmap candidates, in order
    bestPixmap,           \* per call site, the index of the candidate it chose
    argbData,             \* the bytes of one candidate
    pixWidth,             \* its width
    pixHeight,            \* its height
    rgba,                 \* per call site, the bytes _argbToRgba returned
    srcPixels,            \* one pixel [r, g, b, a] of _originalPixbuf
    effect,               \* the sliders, the tint switch and the tint colour
    newPixels,            \* the pixel _updatePreview wrote, or None
    \* the panel order (StatusTrayExtension)
    appOrder,             \* settings 'app-order'
    rightBox,             \* the tray items' containers in Main.panel._rightBox
    position,             \* the last result of _calculatePosition
    reorderAct            \* what the _reorderItems call of the last step did

regVars == <<busState, lossPending, items, nameOwnerChangedIds, cancelled,
             healthCheckTimeoutId, pendingDelayIds, hc, seeks, resolving,
             calls, enabled, extItems, disabledApps, emitted, answered, hcAct,
             regArg>>

connVars == <<itemProps, tiProxy, tiCancellable, tiSignalIds, tiAppId,
              tiIconThemePath, tiMenuPath, tiFallbackOverrideIcon, tiIcon, stIcon,
              tiMenu, inflight, iconOverrides, iconFallbackOverrides,
              reorderTimeoutId, reorderSources, events, notified>>

codecVars == <<pixmaps, bestPixmap, argbData, pixWidth, pixHeight, rgba,
               srcPixels, effect, newPixels>>

orderVars == <<appOrder, rightBox, position, reorderAct>>

menuVars == <<layout, menuItems, tiLastMenuItemType, clicks, menuAct, lastBuilt>>

callVars == <<incoming, hostReplies>>

vars == <<regVars, connVars, codecVars, orderVars, menuVars, callVars>>

\* what no handler of the Registry writes
outsideReg == <<connVars, codecVars, orderVars, menuVars, callVars>>

NoAct == [uniqueId |-> None, busName |-> None, lineage |-> "none",
          killed |-> FALSE]

\* a step that emits no item signal, handles no stale item, registers nothing
Quiet == emitted' = <<>> /\ hcAct' = NoAct /\ regArg' = None

UniqueIds == {b \o p : b \in BusNames, p \in Paths}

KeySet(m) == {m[i].key : i \in 1..Len(m)}
Has(m, k) == k \in KeySet(m)
IndexOf(m, k) == CHOOSE i \in 1..Len(m) : m[i].key = k
Without(s, i) == SubSeq(s, 1, i - 1) \o SubSeq(s, i + 1, Len(s))
SeqHas(s, x) == \E i \in 1..Len(s) : s[i] = x

(***************************************************************************)
(* StatusTrayExtension: the connection map.                                *)
(***************************************************************************)
NotAppName(seg) == seg = <<"StatusNotifierItem">> \/ seg = <<"item">>

\* StatusTrayExtension._extractAppId(key)
ExtractAppId(key) ==
    LET slashIndex == IndexOfSlash(key)
        objectPath == SubSeq(key, slashIndex + 1, Len(key))
        lastPart == LastSegment(objectPath)
    IN IF slashIndex > 0 /\ lastPart # <<>> /\ ~NotAppName(lastPart)
       THEN lastPart
       ELSE IF slashIndex > 0 THEN SubSeq(key, 1, slashIndex) ELSE key

\* TrayItem._extractId(busName, objectPath)
ExtractId(busName, objectPath) ==
    LET lastPart == LastSegment(objectPath)
    IN IF lastPart # <<>> /\ ~NotAppName(lastPart) THEN lastPart ELSE busName

\* _onItemRegistered without the has() test of line 2016
OnItemRegisteredIn_NoHasTest(ext, disabled, m, uniqueId, busName, objectPath) ==
    LET stored == IF Has(m, uniqueId) THEN m[IndexOf(m, uniqueId)].appId ELSE None
    IN IF \/ ExtractAppId(uniqueId) \in disabled
          \/ (stored # None /\ stored \in disabled)
       THEN ext
       ELSE Append(ext, [key |-> uniqueId,
                         appId |-> ExtractId(busName, objectPath)])

\* StatusTrayExtension._onItemRegistered, given the connection map ext, the
\* 'disabled-apps' list and the watcher's map m at the call
OnItemRegisteredIn(ext, disabled, m, uniqueId, busName, objectPath) ==
    LET stored == IF Has(m, uniqueId) THEN m[IndexOf(m, uniqueId)].appId ELSE None
    IN IF \/ ExtractAppId(uniqueId) \in disabled
          \/ (stored # None /\ stored \in disabled)
          \/ Has(ext, uniqueId)
       THEN ext
       ELSE Append(ext, [key |-> uniqueId,
                         appId |-> ExtractId(busName, objectPath)])

\* StatusTrayExtension._onItemRegistered, given the watcher's map m at the call
OnItemRegistered(m, uniqueId, busName, objectPath) ==
    OnItemRegisteredIn(extItems, disabledApps, m, uniqueId, busName, objectPath)

\* StatusTrayExtension._onItemUnregistered
OnItemUnregistered(uniqueId) ==
    IF Has(extItems, uniqueId)
    THEN Without(extItems, IndexOf(extItems, uniqueId))
    ELSE extItems

(***************************************************************************)
(* StatusNotifierWatcher: registration and removal.                        *)
(***************************************************************************)
Signal(name, uniqueId) == [sig |-> name, id |-> uniqueId]

\* _registerItemInternal without the has() guard of line 1795
RegisterItemInternal_NoDedup(busName, objectPath) ==
    LET uniqueId == busName \o objectPath
        added == Append(items, [key |-> uniqueId, busName |-> busName,
                                objectPath |-> objectPath, appId |-> None])
    IN /\ regArg' = uniqueId
       /\ items' = added
       /\ nameOwnerChangedIds' = nameOwnerChangedIds \cup {uniqueId}
       /\ emitted' = IF cancelled THEN <<>>
                     ELSE <<Signal("ItemRegistered", uniqueId)>>
       /\ extItems' = IF enabled
                      THEN OnItemRegistered(added, uniqueId, busName, objectPath)
                      ELSE extItems

\* StatusNotifierWatcher._registerItemInternal
RegisterItemInternal(busName, objectPath) ==
    LET uniqueId == busName \o objectPath
        added == Append(items, [key |-> uniqueId, busName |-> busName,
                                objectPath |-> objectPath, appId |-> None])
    IN IF Has(items, uniqueId)
       THEN /\ UNCHANGED <<items, nameOwnerChangedIds, extItems>>
            /\ emitted' = <<>>
            /\ regArg' = uniqueId
       ELSE /\ regArg' = uniqueId
            /\ items' = added
            /\ nameOwnerChangedIds' = nameOwnerChangedIds \cup {uniqueId}
            \* emit_signal throws on the unexported object and is caught
            /\ emitted' = IF cancelled THEN <<>>
                          ELSE <<Signal("ItemRegistered", uniqueId)>>
            \* after disable() _settings is null: the callback throws
            /\ extItems' = IF enabled
                           THEN OnItemRegistered(added, uniqueId, busName, objectPath)
                           ELSE extItems

\* position of the health check's Map iterator after uniqueId is deleted
PosAfterDelete(uniqueId) ==
    IF Has(items, uniqueId) /\ IndexOf(items, uniqueId) <= hc.pos
    THEN hc.pos - 1 ELSE hc.pos

\* _unregisterItem without the has() guard of line 1830
UnregisterItem_NoGuard(uniqueId) ==
    /\ items' = IF Has(items, uniqueId)
                THEN Without(items, IndexOf(items, uniqueId)) ELSE items
    /\ nameOwnerChangedIds' = nameOwnerChangedIds \ {uniqueId}
    /\ lossPending' = lossPending \ {uniqueId}
    /\ emitted' = IF cancelled THEN <<>>
                  ELSE <<Signal("ItemUnregistered", uniqueId)>>
    /\ extItems' = OnItemUnregistered(uniqueId)

\* StatusNotifierWatcher._unregisterItem
UnregisterItem(uniqueId) ==
    IF ~Has(items, uniqueId)
    THEN /\ UNCHANGED <<items, nameOwnerChangedIds, lossPending, extItems>>
         /\ emitted' = <<>>
    ELSE /\ items' = Without(items, IndexOf(items, uniqueId))
         /\ nameOwnerChangedIds' = nameOwnerChangedIds \ {uniqueId}
         \* an unsubscribed handler is no longer dispatched
         /\ lossPending' = lossPending \ {uniqueId}
         /\ emitted' = IF cancelled THEN <<>>
                       ELSE <<Signal("ItemUnregistered", uniqueId)>>
         /\ extItems' = OnItemUnregistered(uniqueId)

(***************************************************************************)
(* The bus.                                                                *)
(***************************************************************************)
\* the owner GetNameOwner reports for WellKnownName: the first connection
\* owns the name for as long as it lives
WkOwner == IF busState[BusName(1)] = "alive" THEN BusName(1) ELSE None

\* a connection leaves the bus: NameOwnerChanged(b, b, '') is sent to every
\* subscription whose arg0 is b
NameLost(b) ==
    /\ busState[b] = "alive"
    /\ busState' = [busState EXCEPT ![b] = "dead"]
    /\ lossPending' = lossPending \cup
           {items[i].key : i \in {j \in 1..Len(items) :
                /\ items[j].busName = b
                /\ items[j].key \in nameOwnerChangedIds}}
    /\ Quiet
    /\ UNCHANGED <<items, nameOwnerChangedIds, cancelled, healthCheckTimeoutId,
                   pendingDelayIds, hc, seeks, resolving, calls, enabled,
                   extItems, disabledApps, answered>>

\* the NameOwnerChanged handler installed by _registerItemInternal
DeliverLoss(uniqueId) ==
    /\ uniqueId \in lossPending
    /\ UnregisterItem(uniqueId)
    /\ hc' = [hc EXCEPT !.pos = PosAfterDelete(uniqueId)]
    /\ hcAct' = NoAct
    /\ regArg' = None
    /\ UNCHANGED <<busState, cancelled, healthCheckTimeoutId, pendingDelayIds,
                   seeks, resolving, calls, enabled, disabledApps, answered>>

(***************************************************************************)
(* RegisterStatusNotifierItem.                                             *)
(***************************************************************************)
Services == Paths \cup {WellKnownName} \cup BusNames

\* StatusNotifierWatcher.RegisterStatusNotifierItemAsync, up to its first await
RegisterStatusNotifierItemAsync(sender, service) ==
    /\ ~cancelled                       \* the object is exported
    /\ calls < MaxCalls
    /\ busState[sender] = "alive"
    /\ calls' = calls + 1
    /\ IF StartsWith(service, "/")
       THEN /\ RegisterItemInternal(sender, service)
            /\ UNCHANGED resolving
       ELSE IF BUS_ADDRESS_REGEX(service)
       THEN /\ resolving' = resolving \cup {sender}
            /\ emitted' = <<>>
            /\ regArg' = None
            /\ UNCHANGED <<items, nameOwnerChangedIds, extItems>>
       ELSE /\ RegisterItemInternal(service, DEFAULT_ITEM_OBJECT_PATH)
            /\ UNCHANGED resolving
    /\ hcAct' = NoAct
    /\ UNCHANGED <<busState, lossPending, cancelled, healthCheckTimeoutId,
                   pendingDelayIds, hc, seeks, enabled, disabledApps, answered>>

\* StatusNotifierWatcher._resolveNameOwner completes and the call registers.
\* ok: GetNameOwner returned; a cancelled call always ends in an error.
ResolveNameOwner(sender, ok) ==
    /\ sender \in resolving
    /\ ok => (~cancelled /\ WkOwner # None)
    /\ resolving' = resolving \ {sender}
    /\ RegisterItemInternal(IF ok THEN WkOwner ELSE sender, DEFAULT_ITEM_OBJECT_PATH)
    /\ hcAct' = NoAct
    /\ UNCHANGED <<busState, lossPending, cancelled, healthCheckTimeoutId,
                   pendingDelayIds, hc, seeks, calls, enabled, disabledApps,
                   answered>>

\* a RegisterStatusNotifierItem message: its sender and its argument
MethodCall(sender, service) == [sender |-> sender, service |-> service]

NoCall == MethodCall(None, None)

\* no method call is modelled as a message
CallIdle == incoming = NoCall /\ hostReplies = <<>>

\* StatusNotifierWatcher.RegisterStatusNotifierHostAsync
RegisterStatusNotifierHostAsync_Accepts(sender, service) ==
    /\ ~cancelled
    /\ calls < MaxCalls
    /\ busState[sender] = "alive"
    /\ calls' = calls + 1
    /\ hostReplies' = Append(hostReplies, "ok")
    /\ emitted' = <<[sig |-> "StatusNotifierHostRegistered", id |-> None]>>
    /\ hcAct' = NoAct
    /\ regArg' = None
    /\ UNCHANGED <<busState, lossPending, items, nameOwnerChangedIds, cancelled,
                   healthCheckTimeoutId, pendingDelayIds, hc, seeks, resolving,
                   enabled, extItems, disabledApps, answered>>

RegisterStatusNotifierHostAsync(sender, service) ==
    /\ ~cancelled                       \* the object is exported
    /\ calls < MaxCalls
    /\ busState[sender] = "alive"
    /\ calls' = calls + 1
    /\ hostReplies' = Append(hostReplies, "org.freedesktop.DBus.Error.NotSupported")
    /\ Quiet
    /\ UNCHANGED <<busState, lossPending, items, nameOwnerChangedIds, cancelled,
                   healthCheckTimeoutId, pendingDelayIds, hc, seeks, resolving,
                   enabled, extItems, disabledApps, answered>>

(***************************************************************************)
(* Startup reconciliation: _seekExistingItems and _checkForSNI.            *)
(***************************************************************************)
SeekIdle == [pc |-> "idle", names |-> {}, cur |-> None]

SeekDone == [pc |-> "done", names |-> {}, cur |-> None]

\* _seekExistingItems up to its first await: the ListNames call is sent
SeekStarted == [pc |-> "list", names |-> {}, cur |-> None]

\* the names ListNames returns: every connection and every owned name
ListNames ==
    {b \in BusNames : busState[b] = "alive"}
        \cup {<<"org.freedesktop.DBus">>}
        \cup (IF WkOwner # None THEN {WellKnownName} ELSE {})

\* the for loop of _seekExistingItems: the next name that starts with ':'
\* is probed (the bus gives the names in no particular order)
SeekLoop(k, names) ==
    LET unique == {n \in names : StartsWith(n, ":")}
    IN IF unique = {}
       THEN seeks' = [seeks EXCEPT ![k] = SeekDone]
       ELSE \E n \in unique :
               seeks' = [seeks EXCEPT ![k] =
                            [pc |-> "probe", names |-> unique \ {n}, cur |-> n]]

\* the ListNames reply of _seekExistingItems
SeekListReply(k) ==
    /\ seeks[k].pc = "list"
    /\ IF cancelled
       THEN seeks' = [seeks EXCEPT ![k] = SeekDone]
       ELSE SeekLoop(k, ListNames)
    /\ Quiet
    /\ UNCHANGED <<busState, lossPending, items, nameOwnerChangedIds, cancelled,
                   healthCheckTimeoutId, pendingDelayIds, hc, resolving, calls,
                   enabled, extItems, disabledApps, answered>>

\* _checkForSNI registering whatever the probe's outcome
CheckForSNI_AnyReply(busName, objectPath, ok) ==
    RegisterItemInternal(busName, objectPath)

\* _checkForSNI after its Properties.Get('Id') reply (1 s timeout)
CheckForSNI(busName, objectPath, ok) ==
    IF ok /\ ~Has(items, busName \o objectPath)
    THEN RegisterItemInternal(busName, objectPath)
    ELSE /\ UNCHANGED <<items, nameOwnerChangedIds, extItems>>
         /\ emitted' = <<>>
         /\ regArg' = None

\* the probe of _checkForSNI completes inside _seekExistingItems
SeekProbeReply(k, ok) ==
    /\ seeks[k].pc = "probe"
    /\ ok => (~cancelled /\ busState[seeks[k].cur] = "alive")
    /\ CheckForSNI(seeks[k].cur, DEFAULT_ITEM_OBJECT_PATH, ok)
    /\ SeekLoop(k, seeks[k].names)
    /\ hcAct' = NoAct
    /\ UNCHANGED <<busState, lossPending, cancelled, healthCheckTimeoutId,
                   pendingDelayIds, hc, resolving, calls, enabled, disabledApps,
                   answered>>

(***************************************************************************)
(* The health check: _healthCheckAllItems, _isItemStale, _tryKillStaleProxy.*)
(* The helpers take the coroutine's record h, and d, the _delay sources    *)
(* left by the step so far.                                                *)
(***************************************************************************)
NoItem == [key |-> None, busName |-> None, objectPath |-> None]

HcAt(pc, pos, cur, stale, k) ==
    [pc |-> pc, pos |-> pos, cur |-> cur, stale |-> stale, k |-> k]

\* _delay(ms): installs a source and records it
Delay(d, id) == d \cup {id}

\* lines 1570-1577 with the re-scan inside the test of line 1570
HcAfterStale_OnlyWhenStale(h, d) ==
    IF Len(h.stale) > 0
    THEN /\ hc' = HcAt("wait", 0, NoItem, <<>>, 0)
         /\ pendingDelayIds' = Delay(d, "rescan")
         /\ UNCHANGED seeks
    ELSE /\ hc' = HcAt("done", 0, NoItem, <<>>, 0)
         /\ pendingDelayIds' = d
         /\ UNCHANGED seeks

\* lines 1570-1577: wait 2 s when something was stale, then re-scan
HcAfterStale(h, d) ==
    IF Len(h.stale) > 0
    THEN /\ hc' = HcAt("wait", 0, NoItem, <<>>, 0)
         /\ pendingDelayIds' = Delay(d, "rescan")
         /\ UNCHANGED seeks
    ELSE /\ hc' = HcAt("done", 0, NoItem, <<>>, 0)
         /\ seeks' = [seeks EXCEPT ![2] = SeekStarted]
         /\ pendingDelayIds' = d

\* lines 1560-1568: the next stale item, _tryKillStaleProxy sends the pid query
HcStaleLoop(h, k, d) ==
    IF k <= Len(h.stale)
    THEN /\ hc' = HcAt("pid", 0, NoItem, h.stale, k)
         /\ pendingDelayIds' = d
         /\ UNCHANGED seeks
    ELSE HcAfterStale(h, d)

\* lines 1550-1558: the Map iterator's next entry, _isItemStale sends GetAll.
\* m is the Map and pos the number of its entries the iterator has passed.
HcProbeLoop(h, m, pos, d) ==
    IF pos < Len(m)
    THEN /\ hc' = HcAt("props", pos + 1,
                       [key |-> m[pos + 1].key, busName |-> m[pos + 1].busName,
                        objectPath |-> m[pos + 1].objectPath],
                       h.stale, 0)
         /\ pendingDelayIds' = d
         /\ UNCHANGED seeks
    ELSE HcStaleLoop(h, 1, d)

\* staleItems.push({uniqueId, busName})
WithStale(h) ==
    [h EXCEPT !.stale = Append(@, [uniqueId |-> h.cur.key, busName |-> h.cur.busName])]

\* the items that answered every probe made of them in this run
Passed(h) ==
    IF \E i \in 1..Len(h.stale) : h.stale[i].uniqueId = h.cur.key
    THEN answered
    ELSE answered \cup {[uniqueId |-> h.cur.key, busName |-> h.cur.busName]}

Failed(h) == {a \in answered : a.uniqueId # h.cur.key}

\* the 8 s timer of the constructor fires: _healthCheckAllItems starts and
\* awaits _delay(5000)
HealthCheckTimeout ==
    /\ healthCheckTimeoutId
    /\ healthCheckTimeoutId' = FALSE
    /\ hc' = [hc EXCEPT !.pc = "settle"]
    /\ pendingDelayIds' = Delay(pendingDelayIds, "settle")
    /\ Quiet
    /\ UNCHANGED <<busState, lossPending, items, nameOwnerChangedIds, cancelled,
                   seeks, resolving, calls, enabled, extItems, disabledApps,
                   answered>>

\* the settle delay fires and the probe loop starts
HcSettled ==
    /\ hc.pc = "settle"
    /\ "settle" \in pendingDelayIds
    /\ HcProbeLoop(hc, items, 0, pendingDelayIds \ {"settle"})
    /\ Quiet
    /\ UNCHANGED <<busState, lossPending, items, nameOwnerChangedIds, cancelled,
                   healthCheckTimeoutId, resolving, calls, enabled, extItems,
                   disabledApps, answered>>

\* _isItemStale: the GetAll reply (5 s timeout).  res is "error", "nomenu"
\* (no Menu property) or "menu" (a Menu path is advertised: GetLayout is sent)
HcPropsReply(res) ==
    /\ hc.pc = "props"
    /\ res # "error" => (~cancelled /\ busState[hc.cur.busName] = "alive")
    /\ CASE res = "error" ->
              /\ HcProbeLoop(WithStale(hc), items, hc.pos, pendingDelayIds)
              /\ answered' = Failed(hc)
         [] res = "nomenu" ->
              /\ HcProbeLoop(hc, items, hc.pos, pendingDelayIds)
              /\ answered' = IF hc'.pc = "done" THEN {} ELSE Passed(hc)
         [] OTHER ->
              /\ hc' = [hc EXCEPT !.pc = "menu"]
              /\ UNCHANGED <<pendingDelayIds, seeks, answered>>
    /\ Quiet
    /\ UNCHANGED <<busState, lossPending, items, nameOwnerChangedIds, cancelled,
                   healthCheckTimeoutId, resolving, calls, enabled, extItems,
                   disabledApps>>

\* _isItemStale: the zero-depth GetLayout reply (5 s timeout)
HcMenuReply(ok) ==
    /\ hc.pc = "menu"
    /\ ok => (~cancelled /\ busState[hc.cur.busName] = "alive")
    /\ IF ok
       THEN /\ HcProbeLoop(hc, items, hc.pos, pendingDelayIds)
            /\ answered' = IF hc'.pc = "done" THEN {} ELSE Passed(hc)
       ELSE /\ HcProbeLoop(WithStale(hc), items, hc.pos, pendingDelayIds)
            /\ answered' = Failed(hc)
    /\ Quiet
    /\ UNCHANGED <<busState, lossPending, items, nameOwnerChangedIds, cancelled,
                   healthCheckTimeoutId, resolving, calls, enabled, extItems,
                   disabledApps>>

\* _tryKillStaleProxy without the 'app-flatpak-' test of line 1672
TryKillStaleProxy_AnyLineage(lineage, spawned) == lineage # "unknown"

\* _tryKillStaleProxy's result from what it learnt about the owning process:
\* TRUE only when the cgroup names a sandboxed app and kill was spawned
TryKillStaleProxy(lineage, spawned) == lineage = "sandboxed" /\ spawned

\* lines 1561-1567 for the stale item st, once _tryKillStaleProxy has returned
HandleStale(st, lineage, spawned) ==
    LET killed == TryKillStaleProxy(lineage, spawned)
    IN /\ hcAct' = [uniqueId |-> st.uniqueId, busName |-> st.busName,
                    lineage |-> lineage, killed |-> killed]
       /\ regArg' = None
       /\ IF ~killed
          THEN UnregisterItem(st.uniqueId)
          ELSE /\ UNCHANGED <<items, nameOwnerChangedIds, lossPending, extItems>>
               /\ emitted' = <<>>
       /\ HcStaleLoop(hc, hc.k + 1, pendingDelayIds)

\* _tryKillStaleProxy: the GetConnectionUnixProcessID reply (2 s timeout)
HcPidReply(ok) ==
    /\ hc.pc = "pid"
    /\ ok => (~cancelled /\ busState[hc.stale[hc.k].busName] = "alive")
    /\ IF ok
       THEN /\ hc' = [hc EXCEPT !.pc = "cgroup"]
            /\ Quiet
            /\ UNCHANGED <<items, nameOwnerChangedIds, lossPending, extItems,
                           pendingDelayIds, seeks>>
       ELSE HandleStale(hc.stale[hc.k], "unknown", FALSE)
    /\ UNCHANGED <<busState, cancelled, healthCheckTimeoutId, resolving, calls,
                   enabled, disabledApps, answered>>

\* _tryKillStaleProxy: /proc/<pid>/cgroup was read.  res is "error", "plain"
\* (no 'app-flatpak-'), "flatpak" (kill was spawned) or "spawnfail" (the
\* marker is there and spawn_command_line_async threw)
HcCgroupReply(res) ==
    /\ hc.pc = "cgroup"
    /\ res # "error" => ~cancelled
    /\ HandleStale(hc.stale[hc.k],
                   CASE res = "error" -> "unknown"
                     [] res = "plain" -> "plain"
                     [] OTHER -> "sandboxed",
                   res = "flatpak")
    /\ UNCHANGED <<busState, cancelled, healthCheckTimeoutId, resolving, calls,
                   enabled, disabledApps, answered>>

\* the 2 s delay after the evictions fires: _seekExistingItems is started
HcRescan ==
    /\ hc.pc = "wait"
    /\ "rescan" \in pendingDelayIds
    /\ pendingDelayIds' = pendingDelayIds \ {"rescan"}
    /\ hc' = [hc EXCEPT !.pc = "done"]
    /\ seeks' = [seeks EXCEPT ![2] = SeekStarted]
    /\ answered' = {}
    /\ Quiet
    /\ UNCHANGED <<busState, lossPending, items, nameOwnerChangedIds, cancelled,
                   healthCheckTimeoutId, resolving, calls, enabled, extItems,
                   disabledApps>>

(***************************************************************************)
(* Teardown.                                                               *)
(***************************************************************************)
\* StatusNotifierWatcher.destroy
WatcherDestroy ==
    /\ cancelled' = TRUE
    /\ healthCheckTimeoutId' = FALSE
    /\ pendingDelayIds' = {}
    /\ nameOwnerChangedIds' = {}
    /\ lossPending' = {}
    /\ items' = <<>>
    /\ hc' = [hc EXCEPT !.pos = 0]

\* StatusTrayExtension.disable
Disable ==
    /\ enabled
    /\ WatcherDestroy
    /\ enabled' = FALSE
    /\ extItems' = <<>>
    /\ Quiet
    /\ UNCHANGED <<busState, seeks, resolving, calls, disabledApps, answered>>

(***************************************************************************)
(* The Registry's specification.                                           *)
(***************************************************************************)
RegInit ==
    /\ busState = [b \in BusNames |-> "alive"]
    /\ lossPending = {}
    /\ items = <<>>
    /\ nameOwnerChangedIds = {}
    /\ cancelled = FALSE
    /\ healthCheckTimeoutId = TRUE
    /\ pendingDelayIds = {}
    /\ hc = HcAt("timer", 0, NoItem, <<>>, 0)
    /\ seeks = [k \in {1, 2} |-> IF k = 1 THEN SeekStarted ELSE SeekIdle]
    /\ resolving = {}
    /\ calls = 0
    /\ enabled = TRUE
    /\ extItems = <<>>
    /\ disabledApps = {}
    /\ emitted = <<>>
    /\ answered = {}
    /\ hcAct = NoAct
    /\ regArg = None

(***************************************************************************)
(* TrayItem: one connection and the remote item it shows.                  *)
(***************************************************************************)
\* the registrant the connection is made for
TiBusName == BusName(1)

TiObjectPath == CustomPath

TiUniqueId == TiBusName \o TiObjectPath

\* a theme path inside a sandboxed application's runtime directory
FlatpakThemePath ==
    <<"/", "run", "/", "user", "/", "1000", "/", "app", "/", "org.x", "/", "icons">>

\* a theme path outside any sandbox
SystemThemePath == <<"/", "usr", "/", "icons">>

\* \d+ on one path segment
IsDigits(tok) == tok \in {"1000"}

\* /\/run\/user\/\d+\/app\/([^/]+)/ matched at token i of s
FlatpakMatchAt(s, i) ==
    /\ i + 9 <= Len(s)
    /\ s[i] = "/" /\ s[i + 1] = "run"
    /\ s[i + 2] = "/" /\ s[i + 3] = "user"
    /\ s[i + 4] = "/" /\ IsDigits(s[i + 5])
    /\ s[i + 6] = "/" /\ s[i + 7] = "app"
    /\ s[i + 8] = "/" /\ s[i + 9] # "/"

\* extractFlatpakAppId: the capture group of the leftmost match, or null
extractFlatpakAppId(iconThemePath) ==
    LET at == {i \in 1..Len(iconThemePath) : FlatpakMatchAt(iconThemePath, i)}
    IN IF at = {} THEN None
       ELSE LET i == CHOOSE i \in at : \A j \in at : i <= j
            IN <<iconThemePath[i + 9]>>

\* the test of lines 395 and 789 on the raw Id
ValidSniId(sniId) ==
    /\ Len(sniId) > 0
    /\ ~StartsWith(sniId, ":")
    /\ ~StartsWith(sniId, "chrome_status_icon_")

\* _resolveAppId with the raw Id tried before the tooltip title
ResolveAppId_IdFirst(title, iconThemePath, sniId) ==
    IF ValidSniId(sniId) THEN sniId
    ELSE IF Len(title) > 0 THEN title
    ELSE IF Len(iconThemePath) > 0 /\ extractFlatpakAppId(iconThemePath) # None
    THEN extractFlatpakAppId(iconThemePath)
    ELSE None

\* newAppId of TrayItem._resolveAppId (lines 364-400): None when unresolved
ResolveAppId(title, iconThemePath, sniId) ==
    IF Len(title) > 0 THEN title
    ELSE IF Len(iconThemePath) > 0 /\ extractFlatpakAppId(iconThemePath) # None
    THEN extractFlatpakAppId(iconThemePath)
    ELSE IF ValidSniId(sniId) THEN sniId
    ELSE None

\* _appId after TrayItem._resolveAppId (lines 402-406)
AppIdAfterResolve(oldAppId, newAppId) ==
    IF newAppId # None /\ newAppId # oldAppId THEN newAppId ELSE oldAppId

\* the emissions of TrayItem._resolveAppId (lines 402-406)
EmittedByResolve(oldAppId, newAppId) ==
    IF newAppId # None /\ newAppId # oldAppId THEN <<newAppId>> ELSE <<>>

\* StatusNotifierWatcher.updateItemAppId
UpdateItemAppId(m, uniqueId, appId) ==
    [i \in 1..Len(m) |->
        IF m[i].key = uniqueId THEN [m[i] EXCEPT !.appId = appId] ELSE m[i]]

ScheduleReorder_NoRemove ==
    /\ reorderTimeoutId' = TRUE
    /\ reorderSources' = reorderSources + 1

\* StatusTrayExtension._scheduleReorder: the pending source is removed and a
\* new one is added
ScheduleReorder ==
    /\ reorderTimeoutId' = TRUE
    /\ reorderSources' = (IF reorderTimeoutId THEN reorderSources - 1
                          ELSE reorderSources) + 1

\* this.emit('appid-resolved', ...) for each value of es, with the handler of
\* _onItemRegistered (lines 2024-2028); the handlers of a destroyed actor are
\* disconnected
EmitAppIdResolved(es) ==
    /\ notified' = es
    /\ IF es # <<>> /\ tiCancellable = "live"
       THEN /\ items' = UpdateItemAppId(items, TiUniqueId, es[Len(es)])
            /\ ScheduleReorder
       ELSE UNCHANGED <<items, reorderTimeoutId, reorderSources>>

(***************************************************************************)
(* Icon sources.                                                           *)
(***************************************************************************)
FALLBACK_ICON_NAME == <<"image-loading-symbolic">>

Named(iconName) == [src |-> "Named", name |-> iconName]

File(path) == [src |-> "File", name |-> path]

\* the temp file written by _setIconFromPixmap
Pixmap == [src |-> "Pixmap", name |-> None]

\* a remote call of the connection; this._cancellable is null after destroy
Call(op, arg) ==
    [op |-> op, arg |-> arg,
     tok |-> IF tiCancellable = "live" THEN "live" ELSE "none"]

Shown(icon) == [icon |-> icon, calls |-> {}, set |-> TRUE]

\* no setter of the St.Icon ran; calls were started
Kept(cur, started) == [icon |-> cur, calls |-> started, set |-> FALSE]

\* the St.Icon as TrayItem._init constructs it
NewStIcon == [content |-> None, gicon |-> None, icon_name |-> FALLBACK_ICON_NAME]

\* an St.Icon whose only source is the named icon
StNamed(name) == [content |-> None, gicon |-> None, icon_name |-> name]

\* the St.ImageContent and the temp file _setIconFromPixmap builds
ImageContent == <<"imageContent">>
TempFile == <<"/tmp/status-tray.png">>

ClearIconExcept_KeepsContent(icon, activeSource) ==
    [content |-> icon.content,
     gicon |-> IF activeSource # "gicon" THEN None ELSE icon.gicon,
     icon_name |-> IF activeSource # "icon_name" THEN None ELSE icon.icon_name]

\* TrayItem._clearIconExcept
ClearIconExcept(icon, activeSource) ==
    [content |-> IF activeSource # "content" THEN None ELSE icon.content,
     gicon |-> IF activeSource # "gicon" THEN None ELSE icon.gicon,
     icon_name |-> IF activeSource # "icon_name" THEN None ELSE icon.icon_name]

\* the St.Icon after the setter calls that show source: set_icon_name,
\* set_gicon or set({content}), each followed by _clearIconExcept; a pixmap
\* is shown as an St.ImageContent or, when that throws, as a temp file
SetSource(icon, shown) ==
    IF shown.src = "Named"
    THEN {ClearIconExcept([icon EXCEPT !.icon_name = shown.name], "icon_name")}
    ELSE IF shown.src = "File"
    THEN {ClearIconExcept([icon EXCEPT !.gicon = shown.name], "gicon")}
    ELSE {ClearIconExcept([icon EXCEPT !.content = ImageContent], "content"),
          ClearIconExcept([icon EXCEPT !.gicon = TempFile], "gicon")}

\* the St.Icon after a handler whose icon update is r
StIconAfter(r) == IF r.set THEN SetSource(stIcon, r.icon) ELSE {stIcon}

\* TrayItem._setIcon: cur is what is shown now; exists and found are what
\* the file system and the icon theme answer
SetIcon(cur, iconName, iconThemePath, exists, found) ==
    IF StartsWith(iconName, "/") /\ exists THEN Shown(File(iconName))
    ELSE IF Len(iconThemePath) > 0
    THEN IF found THEN Shown(File(iconName))
         ELSE Kept(cur, {Call("IconPixmapWithFallback", iconName)})
    ELSE IF found THEN Shown(File(iconName))
    ELSE Shown(Named(iconName))

\* TrayItem._setIconFromThemeFile
SetIconFromThemeFile(iconName, found) ==
    IF found THEN File(iconName) ELSE Named(iconName)

\* TrayItem._setIconFromPixmap
SetIconFromPixmap(cur, pixmap) == IF pixmap = "data" THEN Pixmap ELSE cur

\* overrides[appId] of the 'icon-overrides' dictionary ov
OverrideOf(ov, appId) ==
    IF \E o \in ov : o.app = appId
    THEN (CHOOSE o \in ov : o.app = appId).icon
    ELSE None

\* the properties a proxy that failed to initialise has cached: none
NoProps == [ToolTip |-> None, IconThemePath |-> None, Id |-> None,
            IconName |-> None, IconPixmap |-> "absent", Menu |-> None]

\* the proxy's cached properties
Cached(proxy) == IF proxy = "ready" THEN itemProps' ELSE NoProps

\* _fallbackOverrideIcon after TrayItem._updateIcon (lines 412-428)
FallbackOverrideOf(ov, fb, appId) ==
    IF OverrideOf(ov, appId) # None /\ appId \in fb
    THEN OverrideOf(ov, appId) ELSE None

\* TrayItem._updateIcon
UpdateIcon(ov, fb, appId, proxy, cur, iconThemePath, exists, found) ==
    LET overrideIcon == OverrideOf(ov, appId)
        fo == FallbackOverrideOf(ov, fb, appId)
        props == Cached(proxy)
    IN IF overrideIcon # None /\ appId \notin fb
       THEN Shown(IF StartsWith(overrideIcon, "/")
                  THEN File(overrideIcon) ELSE Named(overrideIcon))
       ELSE IF proxy = "null"
       THEN IF fo # None THEN SetIcon(cur, fo, iconThemePath, exists, found)
            ELSE Kept(cur, {})
       ELSE IF Len(props.IconName) > 0
       THEN SetIcon(cur, props.IconName, iconThemePath, exists, found)
       ELSE IF fo # None THEN SetIcon(cur, fo, iconThemePath, exists, found)
       ELSE IF props.IconPixmap # "absent"
       THEN IF props.IconPixmap = "data" THEN Shown(Pixmap) ELSE Kept(cur, {})
       ELSE Kept(cur, {Call("IconThemePath", None)})

(***************************************************************************)
(* MenuClient: the com.canonical.dbusmenu layout of the item and the popup *)
(* menu the connection builds from it.  A label is a sequence of           *)
(* characters.                                                             *)
(***************************************************************************)
\* a layout node (id, properties, children); an absent property reads as
\* its default: label '', visible true, enabled true, type '',
\* children-display ''
Node(id, label, type, childrenDisplay, children) ==
    [id |-> id, label |-> label, visible |-> TRUE, enabled |-> TRUE,
     type |-> type, childrenDisplay |-> childrenDisplay, children |-> children]

\* an entry of a PopupMenu.  id is the layout node the entry was made from;
\* only a PopupMenuItem hands it to _activateMenuItem
Entry(kind, id, label, sensitive, sub) ==
    [kind |-> kind, id |-> id, label |-> label, sensitive |-> sensitive,
     sub |-> sub]

PopupMenuItem(id, label, sensitive) == Entry("item", id, label, sensitive, <<>>)

PopupSeparatorMenuItem(id) == Entry("separator", id, <<>>, TRUE, <<>>)

PopupSubMenuMenuItem(id, label, sensitive, sub) ==
    Entry("submenu", id, label, sensitive, sub)

\* the 'Loading...' item of _init and _loadMenu: not reactive, made for the
\* root
LoadingItem == Entry("inactive", 0, <<"Loading...">>, FALSE, <<>>)

\* stripMnemonics: "__" becomes "_", every other "_" is removed
RECURSIVE stripMnemonics(_)
stripMnemonics(label) ==
    IF label = <<>> THEN <<>>
    ELSE IF Head(label) = "_"
         THEN IF Len(label) > 1 /\ label[2] = "_"
              THEN <<"_">> \o stripMnemonics(SubSeq(label, 3, Len(label)))
              ELSE stripMnemonics(Tail(label))
         ELSE <<Head(label)>> \o stripMnemonics(Tail(label))

\* TrayItem._addSubMenuItem: submenu with the entry of item appended
AddSubMenuItem(submenu, item) ==
    LET label == stripMnemonics(item.label)
    IN IF ~item.visible THEN submenu
       ELSE IF item.type = "separator" \/ label = <<>>
            THEN Append(submenu, PopupSeparatorMenuItem(item.id))
            ELSE Append(submenu, PopupMenuItem(item.id, label, item.enabled))

RECURSIVE AddSubMenuItems(_, _)
AddSubMenuItems(submenu, children) ==
    IF children = <<>> THEN submenu
    ELSE AddSubMenuItems(AddSubMenuItem(submenu, Head(children)), Tail(children))

\* TrayItem._addMenuItem: m is this.menu's entries and _lastMenuItemType
RECURSIVE AddMenuItem(_, _)
RECURSIVE AddMenuItems(_, _)
AddMenuItem(m, item) ==
    LET label == stripMnemonics(item.label)
    IN IF ~item.visible THEN m
       ELSE IF label = <<>> /\ item.id = 0
            THEN AddMenuItems(m, item.children)
       ELSE IF item.type = "separator" \/ label = <<>>
            THEN IF m.last = "separator" THEN m
                 ELSE [items |-> Append(m.items, PopupSeparatorMenuItem(item.id)),
                       last |-> "separator"]
       ELSE IF item.childrenDisplay = "submenu" /\ Len(item.children) > 0
            THEN [items |-> Append(m.items,
                                   PopupSubMenuMenuItem(item.id, label, item.enabled,
                                       AddSubMenuItems(<<>>, item.children))),
                  last |-> "submenu"]
       ELSE AddMenuItems([items |-> Append(m.items,
                                           PopupMenuItem(item.id, label, item.enabled)),
                          last |-> "item"],
                         item.children)

AddMenuItems(m, children) ==
    IF children = <<>> THEN m
    ELSE AddMenuItems(AddMenuItem(m, Head(children)), Tail(children))

\* TrayItem._buildMenuFromLayout on the emptied menu; last is
\* _lastMenuItemType before the call
BuildMenuFromLayout(last, root) ==
    IF Len(root.children) = 0 THEN [items |-> <<>>, last |-> last]
    ELSE AddMenuItems([items |-> <<>>, last |-> "null"], root.children)

\* the ids _activateMenuItem can be called with: the PopupMenuItems of the
\* menu and of its submenus
RECURSIVE ActivatableIds(_)
ActivatableIds(entries) ==
    IF entries = <<>> THEN {}
    ELSE LET e == Head(entries)
         IN (IF e.kind = "item" /\ e.sensitive THEN {e.id} ELSE {})
            \cup (IF e.sensitive THEN ActivatableIds(e.sub) ELSE {})
            \cup ActivatableIds(Tail(entries))

\* the arguments of the Event call of _activateMenuItem
ClickedEvent_Root(itemId) == <<0, "clicked", 0, 0>>

ClickedEvent(itemId) == <<itemId, "clicked", 0, 0>>

\* a com.canonical.dbusmenu call, passed a null cancellable; n tells the
\* calls of one method apart
MenuCall(op, args, n) == [op |-> op, arg |-> args, tok |-> "none", n |-> n]

\* no tree was built yet
NoTree == <<Entry("none", 0, <<>>, FALSE, <<>>)>>

\* the menu handler that ran last: its call, the node it was about and
\* whether the reply it handled was a success
MenuAct(did, ok, n, id) == [did |-> did, ok |-> ok, n |-> n, id |-> id]

NoMenuAct == MenuAct("none", TRUE, 0, 0)

\* the layout of an item with one entry
DefaultLayout == Node(0, <<>>, "", "", <<Node(1, <<"A">>, "", "", <<>>)>>)

\* the menu after TrayItem._init
MenuIdle ==
    /\ layout = DefaultLayout
    /\ menuItems = <<LoadingItem>>
    /\ tiLastMenuItemType = "null"
    /\ clicks = 0
    /\ menuAct = NoMenuAct
    /\ lastBuilt = NoTree

(***************************************************************************)
(* TrayItem: handlers.  ok says the call returned a value; a cancelled     *)
(* call always ends in an error.                                           *)
(***************************************************************************)
\* the Registry's state apart from the tracked map
regFrozen == <<busState, lossPending, nameOwnerChangedIds, cancelled,
               healthCheckTimeoutId, pendingDelayIds, hc, seeks, resolving,
               calls, enabled, extItems, disabledApps, emitted, answered,
               hcAct, regArg>>

\* what no handler of the connection writes
outsideConn == <<regFrozen, codecVars, orderVars, menuVars, callVars>>

\* what no handler of the menu writes
outsideMenu == <<regFrozen, codecVars, orderVars, callVars>>

Completes(c, op, ok) == c.op = op /\ (ok => c.tok # "cancelled")

NoEmission == EmitAppIdResolved(<<>>)

\* _connectToSNIFallback without _fetchMenuPathDirect
ConnectToSNIFallback_NoMenu ==
    {Call("ToolTip", None), Call("IconThemePath", None)}

\* TrayItem._connectToSNIFallback: the calls it starts
ConnectToSNIFallback ==
    {Call("ToolTip", None), Call("IconThemePath", None), Call("Menu", None)}

\* TrayItem._initProxy after init_async: _fetchPropertiesFromProxy and
\* _subscribeToSignals, or _connectToSNIFallback when it failed
ProxyInitReply(ok, exists, found) ==
    \E c \in inflight :
        /\ Completes(c, "ProxyInit", ok)
        /\ UNCHANGED <<itemProps, tiCancellable, iconOverrides,
                       iconFallbackOverrides, tiMenu>>
        /\ tiSignalIds' = TRUE
        /\ IF ok
           THEN LET themePath == IF Len(itemProps.IconThemePath) > 0
                                 THEN itemProps.IconThemePath ELSE tiIconThemePath
                    newAppId == ResolveAppId(itemProps.ToolTip, themePath, itemProps.Id)
                    appId == AppIdAfterResolve(tiAppId, newAppId)
                    r == UpdateIcon(iconOverrides, iconFallbackOverrides, appId,
                                    "ready", tiIcon, themePath, exists, found)
                IN /\ tiProxy' = "ready"
                   /\ tiIconThemePath' = themePath
                   /\ tiMenuPath' = IF Len(itemProps.Menu) > 0
                                    THEN itemProps.Menu ELSE tiMenuPath
                   /\ tiAppId' = appId
                   /\ EmitAppIdResolved(EmittedByResolve(tiAppId, newAppId))
                   /\ tiFallbackOverrideIcon' =
                         FallbackOverrideOf(iconOverrides, iconFallbackOverrides, appId)
                   /\ tiIcon' = r.icon
                   /\ stIcon' \in StIconAfter(r)
                   /\ inflight' = (inflight \ {c}) \cup r.calls
           ELSE /\ tiProxy' = IF tiProxy = "null" THEN "null" ELSE "failed"
                /\ inflight' = (inflight \ {c}) \cup ConnectToSNIFallback
                /\ UNCHANGED <<tiAppId, tiIconThemePath, tiMenuPath,
                               tiFallbackOverrideIcon, tiIcon, stIcon>>
                /\ NoEmission
        /\ UNCHANGED <<outsideConn, events>>

\* the 'g-properties-changed' handler of _initProxy: the proxy's cache takes
\* the new value of property key and the handler runs
PropertiesChanged(key, val, exists, found) ==
    /\ tiProxy = "ready"
    /\ events < MaxEvents
    /\ events' = events + 1
    /\ itemProps[key] # val
    /\ itemProps' = [itemProps EXCEPT ![key] = val]
    /\ IF key \in {"IconName", "IconPixmap", "IconThemePath"}
       THEN LET r == UpdateIcon(iconOverrides, iconFallbackOverrides, tiAppId,
                                tiProxy, tiIcon, tiIconThemePath, exists, found)
            IN /\ tiIcon' = r.icon
               /\ stIcon' \in StIconAfter(r)
               /\ inflight' = inflight \cup r.calls
               /\ tiFallbackOverrideIcon' =
                     FallbackOverrideOf(iconOverrides, iconFallbackOverrides, tiAppId)
       ELSE UNCHANGED <<tiIcon, stIcon, inflight, tiFallbackOverrideIcon>>
    /\ NoEmission
    /\ UNCHANGED <<tiProxy, tiCancellable, tiSignalIds, tiAppId, tiIconThemePath,
                   tiMenuPath, tiMenu, iconOverrides, iconFallbackOverrides>>
    /\ UNCHANGED outsideConn

\* the NewIcon handler of _subscribeToSignals: _fetchIconDirect
NewIcon ==
    /\ tiSignalIds
    /\ events < MaxEvents
    /\ events' = events + 1
    /\ inflight' = inflight \cup {Call("IconThemePath", None)}
    /\ NoEmission
    /\ UNCHANGED <<itemProps, tiProxy, tiCancellable, tiSignalIds, tiAppId,
                   tiIconThemePath, tiMenuPath, tiFallbackOverrideIcon, tiIcon, stIcon,
                   tiMenu, iconOverrides, iconFallbackOverrides>>
    /\ UNCHANGED outsideConn

\* 'changed::icon-overrides' / 'changed::icon-fallback-overrides':
\* StatusTrayExtension._refreshIcons calls _updateIcon of every live item
SettingsChanged(ov, fb, exists, found) ==
    /\ tiCancellable = "live"
    /\ events < MaxEvents
    /\ events' = events + 1
    /\ <<ov, fb>> # <<iconOverrides, iconFallbackOverrides>>
    /\ iconOverrides' = ov
    /\ iconFallbackOverrides' = fb
    /\ UNCHANGED itemProps
    /\ LET r == UpdateIcon(ov, fb, tiAppId, tiProxy, tiIcon, tiIconThemePath,
                           exists, found)
       IN /\ tiIcon' = r.icon
          /\ stIcon' \in StIconAfter(r)
          /\ inflight' = inflight \cup r.calls
    /\ tiFallbackOverrideIcon' = FallbackOverrideOf(ov, fb, tiAppId)
    /\ NoEmission
    /\ UNCHANGED <<tiProxy, tiCancellable, tiSignalIds, tiAppId,
                   tiIconThemePath, tiMenuPath, tiMenu>>
    /\ UNCHANGED outsideConn

\* _fetchIdDirect going on to the theme path whatever the tooltip holds
ToolTipReply_SkipsTitle(ok) ==
    \E c \in inflight :
        /\ Completes(c, "ToolTip", ok)
        /\ inflight' = (inflight \ {c}) \cup {Call("IdIconThemePath", None)}
        /\ NoEmission
        /\ UNCHANGED <<itemProps, tiProxy, tiCancellable, tiSignalIds, tiAppId,
                       tiIconThemePath, tiMenuPath, tiFallbackOverrideIcon,
                       tiIcon, stIcon, tiMenu, iconOverrides, iconFallbackOverrides>>
        /\ UNCHANGED <<outsideConn, events>>

\* _fetchIdDirect: the ToolTip reply
ToolTipReply(ok) ==
    \E c \in inflight :
        /\ Completes(c, "ToolTip", ok)
        /\ IF ok /\ Len(itemProps.ToolTip) > 0
           THEN /\ tiAppId' = itemProps.ToolTip
                /\ EmitAppIdResolved(<<itemProps.ToolTip>>)
                /\ inflight' = inflight \ {c}
           ELSE /\ inflight' = (inflight \ {c}) \cup {Call("IdIconThemePath", None)}
                /\ NoEmission
                /\ UNCHANGED tiAppId
        /\ UNCHANGED <<itemProps, tiProxy, tiCancellable, tiSignalIds,
                       tiIconThemePath, tiMenuPath, tiFallbackOverrideIcon,
                       tiIcon, stIcon, tiMenu, iconOverrides, iconFallbackOverrides>>
        /\ UNCHANGED <<outsideConn, events>>

\* _fetchIdFromIconThemePathDirect: the IconThemePath reply
IdIconThemePathReply(ok) ==
    \E c \in inflight :
        /\ Completes(c, "IdIconThemePath", ok)
        /\ LET got == ok /\ Len(itemProps.IconThemePath) > 0
               flatpakId == IF got THEN extractFlatpakAppId(itemProps.IconThemePath)
                            ELSE None
           IN /\ tiIconThemePath' = IF got THEN itemProps.IconThemePath
                                    ELSE tiIconThemePath
              /\ IF flatpakId # None
                 THEN /\ tiAppId' = flatpakId
                      /\ EmitAppIdResolved(<<flatpakId>>)
                      /\ inflight' = inflight \ {c}
                 ELSE /\ inflight' = (inflight \ {c}) \cup {Call("Id", None)}
                      /\ NoEmission
                      /\ UNCHANGED tiAppId
        /\ UNCHANGED <<itemProps, tiProxy, tiCancellable, tiSignalIds,
                       tiMenuPath, tiFallbackOverrideIcon, tiIcon, stIcon, tiMenu,
                       iconOverrides, iconFallbackOverrides>>
        /\ UNCHANGED <<outsideConn, events>>

\* _fetchSniIdDirect: the Id reply
SniIdReply(ok) ==
    \E c \in inflight :
        /\ Completes(c, "Id", ok)
        /\ inflight' = inflight \ {c}
        /\ IF ok /\ ValidSniId(itemProps.Id)
           THEN /\ tiAppId' = itemProps.Id
                /\ EmitAppIdResolved(<<itemProps.Id>>)
           ELSE /\ NoEmission
                /\ UNCHANGED tiAppId
        /\ UNCHANGED <<itemProps, tiProxy, tiCancellable, tiSignalIds,
                       tiIconThemePath, tiMenuPath, tiFallbackOverrideIcon,
                       tiIcon, stIcon, tiMenu, iconOverrides, iconFallbackOverrides>>
        /\ UNCHANGED <<outsideConn, events>>

\* _fetchIconDirect: the IconThemePath reply, then _fetchIconNameDirect
IconThemePathReply(ok) ==
    \E c \in inflight :
        /\ Completes(c, "IconThemePath", ok)
        /\ tiIconThemePath' = IF ok THEN itemProps.IconThemePath ELSE tiIconThemePath
        /\ inflight' = (inflight \ {c}) \cup {Call("IconName", None)}
        /\ NoEmission
        /\ UNCHANGED <<itemProps, tiProxy, tiCancellable, tiSignalIds, tiAppId,
                       tiMenuPath, tiFallbackOverrideIcon, tiIcon, stIcon, tiMenu,
                       iconOverrides, iconFallbackOverrides>>
        /\ UNCHANGED <<outsideConn, events>>

\* _fetchIconNameDirect: the IconName reply
IconNameReply(ok, exists, found) ==
    \E c \in inflight :
        /\ Completes(c, "IconName", ok)
        /\ LET iconName == IF ok /\ Len(itemProps.IconName) > 0
                           THEN itemProps.IconName
                           ELSE tiFallbackOverrideIcon
               r == IF iconName # None
                    THEN SetIcon(tiIcon, iconName, tiIconThemePath, exists, found)
                    ELSE Kept(tiIcon, {Call("IconPixmap", None)})
           IN /\ tiIcon' = r.icon
              /\ stIcon' \in StIconAfter(r)
              /\ inflight' = (inflight \ {c}) \cup r.calls
        /\ NoEmission
        /\ UNCHANGED <<itemProps, tiProxy, tiCancellable, tiSignalIds, tiAppId,
                       tiIconThemePath, tiMenuPath, tiFallbackOverrideIcon,
                       tiMenu, iconOverrides, iconFallbackOverrides>>
        /\ UNCHANGED <<outsideConn, events>>

\* _fetchIconPixmapDirect: the IconPixmap reply
IconPixmapReply(ok) ==
    \E c \in inflight :
        /\ Completes(c, "IconPixmap", ok)
        /\ ok => itemProps.IconPixmap # "absent"
        /\ tiIcon' = IF ok THEN SetIconFromPixmap(tiIcon, itemProps.IconPixmap)
                     ELSE tiIcon
        /\ stIcon' \in IF ok /\ itemProps.IconPixmap = "data"
                       THEN SetSource(stIcon, Pixmap) ELSE {stIcon}
        /\ inflight' = inflight \ {c}
        /\ NoEmission
        /\ UNCHANGED <<itemProps, tiProxy, tiCancellable, tiSignalIds, tiAppId,
                       tiIconThemePath, tiMenuPath, tiFallbackOverrideIcon,
                       tiMenu, iconOverrides, iconFallbackOverrides>>
        /\ UNCHANGED <<outsideConn, events>>

\* _fetchIconPixmapWithFallback: the IconPixmap reply.  saysCancelled: the
\* error's message contains 'CANCELLED'
IconPixmapWithFallbackReply(ok, found, saysCancelled) ==
    \E c \in inflight :
        /\ Completes(c, "IconPixmapWithFallback", ok)
        /\ ok => itemProps.IconPixmap # "absent"
        /\ saysCancelled => (~ok /\ c.tok = "cancelled")
        /\ tiIcon' = IF ok /\ itemProps.IconPixmap = "data" THEN Pixmap
                     ELSE IF ok \/ ~saysCancelled
                     THEN SetIconFromThemeFile(c.arg, found)
                     ELSE tiIcon
        /\ stIcon' \in IF ok /\ itemProps.IconPixmap = "data"
                       THEN SetSource(stIcon, Pixmap)
                       ELSE IF ok \/ ~saysCancelled
                       THEN SetSource(stIcon, SetIconFromThemeFile(c.arg, found))
                       ELSE {stIcon}
        /\ inflight' = inflight \ {c}
        /\ NoEmission
        /\ UNCHANGED <<itemProps, tiProxy, tiCancellable, tiSignalIds, tiAppId,
                       tiIconThemePath, tiMenuPath, tiFallbackOverrideIcon,
                       tiMenu, iconOverrides, iconFallbackOverrides>>
        /\ UNCHANGED <<outsideConn, events>>

\* _fetchMenuPathDirect: the Menu reply
MenuReply(ok) ==
    \E c \in inflight :
        /\ Completes(c, "Menu", ok)
        /\ ok => Len(itemProps.Menu) > 0
        /\ tiMenuPath' = IF ok THEN itemProps.Menu ELSE <<"/", "MenuBar">>
        /\ inflight' = inflight \ {c}
        /\ NoEmission
        /\ UNCHANGED <<itemProps, tiProxy, tiCancellable, tiSignalIds, tiAppId,
                       tiIconThemePath, tiFallbackOverrideIcon, tiIcon, stIcon, tiMenu,
                       iconOverrides, iconFallbackOverrides>>
        /\ UNCHANGED <<outsideConn, events>>

\* the menu's 'open-state-changed' handler with isOpen: TrayItem._loadMenu
MenuOpened ==
    /\ tiCancellable = "live"
    /\ events < MaxEvents
    /\ events' = events + 1
    /\ Len(tiMenuPath) > 0
    /\ tiMenu' = "loading"
    /\ menuItems' = <<LoadingItem>>
    /\ inflight' = inflight \cup {MenuCall("AboutToShow", <<0>>, events')}
    /\ menuAct' = MenuAct("loadMenu", TRUE, events', 0)
    /\ NoEmission
    /\ UNCHANGED <<layout, tiLastMenuItemType, clicks, lastBuilt>>
    /\ UNCHANGED <<itemProps, tiProxy, tiCancellable, tiSignalIds, tiAppId,
                   tiIconThemePath, tiMenuPath, tiFallbackOverrideIcon, tiIcon, stIcon,
                   iconOverrides, iconFallbackOverrides>>
    /\ UNCHANGED outsideMenu

\* _loadMenu: the AboutToShow reply, then _fetchMenuLayout
AboutToShowReply_SuccessOnly(ok) ==
    \E c \in inflight :
        /\ Completes(c, "AboutToShow", ok)
        /\ inflight' = (inflight \ {c}) \cup
                       (IF ok THEN {MenuCall("GetLayout", <<0, -1, <<>>>>, c.n)}
                        ELSE {})
        /\ menuAct' = MenuAct("aboutToShow", ok, c.n, 0)
        /\ NoEmission
        /\ UNCHANGED <<layout, menuItems, tiLastMenuItemType, clicks, lastBuilt>>
        /\ UNCHANGED <<itemProps, tiProxy, tiCancellable, tiSignalIds, tiAppId,
                       tiIconThemePath, tiMenuPath, tiFallbackOverrideIcon,
                       tiIcon, stIcon, tiMenu, iconOverrides, iconFallbackOverrides>>
        /\ UNCHANGED <<outsideMenu, events>>

AboutToShowReply(ok) ==
    \E c \in inflight :
        /\ Completes(c, "AboutToShow", ok)
        /\ inflight' = (inflight \ {c}) \cup
                       {MenuCall("GetLayout", <<0, -1, <<>>>>, c.n)}
        /\ menuAct' = MenuAct("aboutToShow", ok, c.n, 0)
        /\ NoEmission
        /\ UNCHANGED <<layout, menuItems, tiLastMenuItemType, clicks, lastBuilt>>
        /\ UNCHANGED <<itemProps, tiProxy, tiCancellable, tiSignalIds, tiAppId,
                       tiIconThemePath, tiMenuPath, tiFallbackOverrideIcon,
                       tiIcon, stIcon, tiMenu, iconOverrides, iconFallbackOverrides>>
        /\ UNCHANGED <<outsideMenu, events>>

\* _fetchMenuLayout: the GetLayout reply.  On a destroyed actor removeAll and
\* the rebuild either go through or throw into the catch of line 1257
GetLayoutReply(ok) ==
    \E c \in inflight, built \in BOOLEAN :
        /\ Completes(c, "GetLayout", ok)
        /\ built => ok
        /\ (ok /\ tiCancellable = "live") => built
        /\ LET m == BuildMenuFromLayout(tiLastMenuItemType, layout)
           IN /\ tiMenu' = IF built THEN "built" ELSE tiMenu
              /\ menuItems' = IF built THEN m.items ELSE menuItems
              /\ tiLastMenuItemType' = IF built THEN m.last
                                       ELSE tiLastMenuItemType
              /\ lastBuilt' = IF built THEN m.items ELSE lastBuilt
        /\ inflight' = inflight \ {c}
        /\ menuAct' = MenuAct("fetchMenuLayout", ok, c.n, 0)
        /\ NoEmission
        /\ UNCHANGED <<layout, clicks>>
        /\ UNCHANGED <<itemProps, tiProxy, tiCancellable, tiSignalIds, tiAppId,
                       tiIconThemePath, tiMenuPath, tiFallbackOverrideIcon,
                       tiIcon, stIcon, iconOverrides, iconFallbackOverrides>>
        /\ UNCHANGED <<outsideMenu, events>>

\* a PopupMenuItem's 'activate' handler: TrayItem._activateMenuItem
ActivateMenuItem(itemId) ==
    /\ tiCancellable = "live"
    /\ clicks < MaxClicks
    /\ itemId \in ActivatableIds(menuItems)
    /\ clicks' = clicks + 1
    /\ inflight' = inflight \cup {MenuCall("Event", ClickedEvent(itemId), clicks')}
    /\ menuAct' = MenuAct("activateMenuItem", TRUE, clicks', itemId)
    /\ NoEmission
    /\ UNCHANGED <<layout, menuItems, tiLastMenuItemType, lastBuilt>>
    /\ UNCHANGED <<itemProps, tiProxy, tiCancellable, tiSignalIds, tiAppId,
                   tiIconThemePath, tiMenuPath, tiFallbackOverrideIcon, tiIcon, stIcon,
                   tiMenu, iconOverrides, iconFallbackOverrides>>
    /\ UNCHANGED <<outsideMenu, events>>

\* _activateMenuItem: the Event reply, which is only logged
EventReply(ok) ==
    \E c \in inflight :
        /\ Completes(c, "Event", ok)
        /\ inflight' = inflight \ {c}
        /\ menuAct' = MenuAct("event", ok, c.n, c.arg[1])
        /\ NoEmission
        /\ UNCHANGED <<layout, menuItems, tiLastMenuItemType, clicks, lastBuilt>>
        /\ UNCHANGED <<itemProps, tiProxy, tiCancellable, tiSignalIds, tiAppId,
                       tiIconThemePath, tiMenuPath, tiFallbackOverrideIcon,
                       tiIcon, stIcon, tiMenu, iconOverrides, iconFallbackOverrides>>
        /\ UNCHANGED <<outsideMenu, events>>

\* TrayItem.destroy
TrayItemDestroy ==
    /\ tiCancellable = "live"
    /\ tiCancellable' = "null"
    /\ inflight' = {IF c.tok = "live" THEN [c EXCEPT !.tok = "cancelled"] ELSE c :
                      c \in inflight}
    /\ tiSignalIds' = FALSE
    /\ tiProxy' = "null"
    /\ NoEmission
    /\ UNCHANGED <<itemProps, tiAppId, tiIconThemePath, tiMenuPath,
                   tiFallbackOverrideIcon, tiIcon, stIcon, tiMenu, iconOverrides,
                   iconFallbackOverrides>>
    /\ UNCHANGED <<outsideConn, events>>

(***************************************************************************)
(* PixelCodec: the choice among IconPixmap candidates and the ARGB to RGBA *)
(* conversion, in TrayItem (extension.js) and in AppRow and                *)
(* IconEffectDialog (prefs.js).                                            *)
(***************************************************************************)
Abs(x) == IF x < 0 THEN -x ELSE x

\* targetSize of TrayItem._setIconFromPixmap, AppRow._fetchIconPixmap and
\* IconEffectDialog._setIconFromPixmap
TrayItemTargetSize == 22

AppRowTargetSize == 24

DialogTargetSize == 64

RECURSIVE TrayItemBestFrom(_, _, _, _)
\* the loop of TrayItem._setIconFromPixmap from candidate i on; best is the
\* index of bestPixmap so far
TrayItemBestFrom(ws, targetSize, i, best) ==
    IF i > Len(ws) THEN best
    ELSE IF /\ ws[i] >= 16 /\ ws[i] <= 48
            /\ Abs(ws[i] - targetSize) < Abs(ws[best] - targetSize)
    THEN TrayItemBestFrom(ws, targetSize, i + 1, i)
    ELSE TrayItemBestFrom(ws, targetSize, i + 1, best)

\* bestPixmap of TrayItem._setIconFromPixmap: it starts at pixmaps[0]
TrayItemBestPixmap(ws, targetSize) == TrayItemBestFrom(ws, targetSize, 1, 1)

RECURSIVE AppRowBestFrom(_, _, _, _)
\* the loop of AppRow._fetchIconPixmap
AppRowBestFrom(ws, targetSize, i, best) ==
    IF i > Len(ws) THEN best
    ELSE IF /\ ws[i] >= 16 /\ ws[i] <= 48
            /\ Abs(ws[i] - targetSize) < Abs(ws[best] - targetSize)
    THEN AppRowBestFrom(ws, targetSize, i + 1, i)
    ELSE AppRowBestFrom(ws, targetSize, i + 1, best)

AppRowBestPixmap(ws, targetSize) == AppRowBestFrom(ws, targetSize, 1, 1)

RECURSIVE DialogBestFrom(_, _, _, _)
\* the loop of IconEffectDialog._setIconFromPixmap: no test on the width
DialogBestFrom(ws, targetSize, i, best) ==
    IF i > Len(ws) THEN best
    ELSE IF Abs(ws[i] - targetSize) < Abs(ws[best] - targetSize)
    THEN DialogBestFrom(ws, targetSize, i + 1, i)
    ELSE DialogBestFrom(ws, targetSize, i + 1, best)

DialogBestPixmap(ws, targetSize) == DialogBestFrom(ws, targetSize, 1, 1)

NoBest == [TrayItem |-> 0, AppRow |-> 0, Dialog |-> 0]

NoRgba == [TrayItem |-> None, AppRow |-> None]

\* TrayItem._setIconFromPixmap up to the choice of bestPixmap
TrayItemSetIconFromPixmap ==
    /\ Len(pixmaps) > 0
    /\ bestPixmap.TrayItem = 0
    /\ bestPixmap' = [bestPixmap EXCEPT
                         !.TrayItem = TrayItemBestPixmap(pixmaps, TrayItemTargetSize)]
    /\ UNCHANGED <<pixmaps, argbData, pixWidth, pixHeight, rgba, srcPixels,
                   effect, newPixels>>

\* AppRow._fetchIconPixmap up to the choice of bestPixmap
AppRowFetchIconPixmap ==
    /\ Len(pixmaps) > 0
    /\ bestPixmap.AppRow = 0
    /\ bestPixmap' = [bestPixmap EXCEPT
                         !.AppRow = AppRowBestPixmap(pixmaps, AppRowTargetSize)]
    /\ UNCHANGED <<pixmaps, argbData, pixWidth, pixHeight, rgba, srcPixels,
                   effect, newPixels>>

\* IconEffectDialog._setIconFromPixmap up to the choice of bestPixmap
DialogSetIconFromPixmap ==
    /\ Len(pixmaps) > 0
    /\ bestPixmap.Dialog = 0
    /\ bestPixmap' = [bestPixmap EXCEPT
                         !.Dialog = DialogBestPixmap(pixmaps, DialogTargetSize)]
    /\ UNCHANGED <<pixmaps, argbData, pixWidth, pixHeight, rgba, srcPixels,
                   effect, newPixels>>

\* TrayItem._argbToRgba with the channels left in place
ArgbToRgba_NoSwap(data, width, height) ==
    [k \in 1..(width * height * 4) |-> data[k]]

\* TrayItem._argbToRgba: byte k of the Uint8Array it fills (k from 1)
ArgbToRgba(data, width, height) ==
    [k \in 1..(width * height * 4) |->
        LET srcOffset == ((k - 1) \div 4) * 4
            ch == (k - 1) % 4
        IN IF ch = 3 THEN data[srcOffset + 1] ELSE data[srcOffset + ch + 2]]

\* AppRow._argbToRgba
AppRowArgbToRgba(data, width, height) ==
    [k \in 1..(width * height * 4) |->
        LET srcOffset == ((k - 1) \div 4) * 4
            ch == (k - 1) % 4
        IN IF ch = 3 THEN data[srcOffset + 1] ELSE data[srcOffset + ch + 2]]

\* TrayItem._setIconFromPixmap: the conversion of the chosen candidate
TrayItemConvert ==
    /\ pixWidth > 0
    /\ rgba.TrayItem = None
    /\ rgba' = [rgba EXCEPT !.TrayItem = ArgbToRgba(argbData, pixWidth, pixHeight)]
    /\ UNCHANGED <<pixmaps, bestPixmap, argbData, pixWidth, pixHeight,
                   srcPixels, effect, newPixels>>

\* AppRow._fetchIconPixmap: the conversion of the chosen candidate
AppRowConvert ==
    /\ pixWidth > 0
    /\ rgba.AppRow = None
    /\ rgba' = [rgba EXCEPT !.AppRow = AppRowArgbToRgba(argbData, pixWidth, pixHeight)]
    /\ UNCHANGED <<pixmaps, bestPixmap, argbData, pixWidth, pixHeight,
                   srcPixels, effect, newPixels>>

(***************************************************************************)
(* EffectTransform: the pixel loop of IconEffectDialog._updatePreview.     *)
(* The sliders are in tenths; a channel is carried as the numerator of a   *)
(* fraction whose denominator the step names.                              *)
(***************************************************************************)
\* 1000 * gray of step 1
Luminance(r, g, b) == 299 * r + 587 * g + 114 * b

\* step 1 on channel v, over 10000
Desaturate(v, gray, desaturation) ==
    IF desaturation > 0 THEN 10000 * v + (gray - 1000 * v) * desaturation
    ELSE 10000 * v

\* step 2, over 10000
Brighten(n, brightness) == n + brightness * 255 * 1000

\* step 3 around 127 instead of 128
Contrast_Pivot127(n, contrast) == (n - 127 * 10000) * contrast + 128 * 100000

\* step 3, over 100000
Contrast(n, contrast) == (n - 128 * 10000) * contrast + 128 * 100000

\* Math.max(0, Math.min(255, Math.round(n / d)))
ClampRound(n, d) ==
    LET v == (2 * n + d) \div (2 * d)
    IN IF v < 0 THEN 0 ELSE IF v > 255 THEN 255 ELSE v

\* one pixel <<r, g, b, a>> through the loop body
EffectTransform(px, e) ==
    LET gray == Luminance(px[1], px[2], px[3])
        c == [k \in 1..3 |->
                Contrast(Brighten(Desaturate(px[k], gray, e.desaturation),
                                  e.brightness), e.contrast)]
        sum == c[1] + c[2] + c[3]
    IN IF e.useTint
       THEN <<ClampRound(sum * e.tint[1], 3000000),
              ClampRound(sum * e.tint[2], 3000000),
              ClampRound(sum * e.tint[3], 3000000), px[4]>>
       ELSE <<ClampRound(c[1], 100000), ClampRound(c[2], 100000),
              ClampRound(c[3], 100000), px[4]>>

\* IconEffectDialog._updatePreview on a pixbuf with an alpha channel
UpdatePreview ==
    /\ srcPixels # None
    /\ newPixels = None
    /\ newPixels' = EffectTransform(srcPixels, effect)
    /\ UNCHANGED <<pixmaps, bestPixmap, argbData, pixWidth, pixHeight, rgba,
                   srcPixels, effect>>

\* the sliders at rest
NoEffect == [desaturation |-> 0, brightness |-> 0, contrast |-> 10,
             useTint |-> FALSE, tint |-> <<10, 10, 10>>]

\* nothing is being decoded or previewed
CodecIdle ==
    /\ pixmaps = <<>>
    /\ bestPixmap = NoBest
    /\ argbData = <<>>
    /\ pixWidth = 0
    /\ pixHeight = 0
    /\ rgba = NoRgba
    /\ srcPixels = None
    /\ effect = NoEffect
    /\ newPixels = None

(***************************************************************************)
(* OrderingCoordinator: StatusTrayExtension._calculatePosition and         *)
(* _reorderItems.                                                          *)
(***************************************************************************)
\* Array.prototype.indexOf: 0-based, -1 when absent
OrderIndexOf(list, id) ==
    IF \E i \in 1..Len(list) : list[i] = id
    THEN (CHOOSE i \in 1..Len(list) :
             list[i] = id /\ \A j \in 1..(i - 1) : list[j] # id) - 1
    ELSE -1

IsRealAppId(id) == ~StartsWith(id, ":")

\* _calculatePosition with the index taken in the unfiltered 'app-order'
CalculatePosition_Unfiltered(appId, order) ==
    IF StartsWith(appId, ":") THEN 0
    ELSE IF OrderIndexOf(order, appId) = -1 THEN 0
    ELSE OrderIndexOf(order, appId)

\* StatusTrayExtension._calculatePosition
CalculatePosition(appId, order) ==
    IF StartsWith(appId, ":") THEN 0
    ELSE LET validOrder == SelectSeq(order, IsRealAppId)
             orderIndex == OrderIndexOf(validOrder, appId)
         IN IF orderIndex = -1 THEN 0 ELSE orderIndex

\* the comparator of entries.sort in _reorderItems
CompareEntries(a, b, order) ==
    LET aIndex == OrderIndexOf(order, a.appId)
        bIndex == OrderIndexOf(order, b.appId)
    IN IF aIndex # -1 /\ bIndex # -1 THEN aIndex - bIndex
       ELSE IF aIndex # -1 THEN -1
       ELSE IF bIndex # -1 THEN 1
       ELSE 0

RECURSIVE InsertEntry(_, _, _)
\* e put behind every entry of the sorted sequence that does not compare
\* greater: Array.prototype.sort is stable
InsertEntry(sorted, e, order) ==
    IF sorted = <<>> THEN <<e>>
    ELSE IF CompareEntries(sorted[Len(sorted)], e, order) > 0
    THEN Append(InsertEntry(SubSeq(sorted, 1, Len(sorted) - 1), e, order),
                sorted[Len(sorted)])
    ELSE Append(sorted, e)

RECURSIVE SortEntries_PresentOnly(_, _)
\* entries.sort that loses the entries whose appId is not in 'app-order'
SortEntries_PresentOnly(entries, order) ==
    IF entries = <<>> THEN <<>>
    ELSE LET rest == SortEntries_PresentOnly(SubSeq(entries, 1, Len(entries) - 1), order)
             e == entries[Len(entries)]
         IN IF OrderIndexOf(order, e.appId) = -1 THEN rest
            ELSE InsertEntry(rest, e, order)

RECURSIVE SortEntries(_, _)
\* entries.sort((a, b) => ...) of _reorderItems
SortEntries(entries, order) ==
    IF entries = <<>> THEN <<>>
    ELSE InsertEntry(SortEntries(SubSeq(entries, 1, Len(entries) - 1), order),
                     entries[Len(entries)], order)

Keys(m) == [i \in 1..Len(m) |-> m[i].key]

\* the test of lines 2198-2201 never succeeding
OrderUnchanged_Never(currentOrder, desiredOrder) == FALSE

\* the test of lines 2198-2201
OrderUnchanged(currentOrder, desiredOrder) ==
    /\ Len(currentOrder) = Len(desiredOrder)
    /\ \A i \in 1..Len(currentOrder) : currentOrder[i] = desiredOrder[i]

NoPosition == [appId |-> None, index |-> -1]

\* no _reorderItems call in the last step
NoReorder == [did |-> "none", repeat |-> FALSE]

\* what a _reorderItems call did; repeat says that the step before was a
\* _reorderItems call with the same 'app-order'
Reorder(did, order) ==
    [did |-> did, repeat |-> reorderAct.did \in {"skipped", "reordered"} /\ order = appOrder]

\* StatusTrayExtension._reorderItems with 'app-order' holding order.  The
\* box holds the tray items' containers: set_child_at_index for i = 0, 1, ...
\* leaves them in the order of entries
ReorderItems(order) ==
    /\ position' = NoPosition
    /\ IF ~enabled
       THEN /\ reorderAct' = Reorder("nowatcher", order)
            /\ UNCHANGED <<extItems, rightBox>>
       ELSE LET entries == SortEntries(extItems, order)
            IN IF OrderUnchanged(Keys(extItems), Keys(entries))
               THEN /\ reorderAct' = Reorder("skipped", order)
                    /\ UNCHANGED <<extItems, rightBox>>
               ELSE /\ reorderAct' = Reorder("reordered", order)
                    /\ rightBox' = Keys(entries)
                    /\ extItems' = entries

\* the Registry's state apart from the extension's map
regButExtItems == <<busState, lossPending, items, nameOwnerChangedIds, cancelled,
                    healthCheckTimeoutId, pendingDelayIds, hc, seeks, resolving,
                    calls, enabled, disabledApps, emitted, answered, hcAct,
                    regArg>>

\* the connection's state apart from the reorder timer and the event count
connButReorder == <<itemProps, tiProxy, tiCancellable, tiSignalIds, tiAppId,
                    tiIconThemePath, tiMenuPath, tiFallbackOverrideIcon, tiIcon, stIcon,
                    tiMenu, inflight, iconOverrides, iconFallbackOverrides,
                    notified>>

\* the 'changed::app-order' handler of enable
AppOrderChanged(order) ==
    /\ enabled
    /\ events < MaxEvents
    /\ events' = events + 1
    /\ order # appOrder
    /\ appOrder' = order
    /\ ReorderItems(order)
    /\ UNCHANGED <<regButExtItems, connButReorder, codecVars, menuVars, callVars,
                 reorderTimeoutId, reorderSources>>

\* the timeout callback of _scheduleReorder
ReorderTimeout ==
    /\ reorderSources > 0
    /\ reorderSources' = reorderSources - 1
    /\ reorderTimeoutId' = FALSE
    /\ ReorderItems(appOrder)
    /\ UNCHANGED <<regButExtItems, connButReorder, codecVars, menuVars, callVars,
                 appOrder, events>>

\* _calculatePosition(appId), as _onItemRegistered calls it for an item
\* that registers
CalculatePositionOf(appId) ==
    /\ enabled
    /\ events < MaxEvents
    /\ events' = events + 1
    /\ position' = [appId |-> appId, index |-> CalculatePosition(appId, appOrder)]
    /\ reorderAct' = NoReorder
    /\ UNCHANGED <<regVars, connButReorder, reorderTimeoutId, reorderSources, codecVars,
                   menuVars, callVars, appOrder, rightBox>>

\* no tray item is in the panel
OrderIdle ==
    /\ appOrder = <<>>
    /\ rightBox = <<>>
    /\ position = NoPosition
    /\ reorderAct = NoReorder

(***************************************************************************)
(* The values the remote item and the settings take.                       *)
(***************************************************************************)
PropValues ==
    [ToolTip |-> {None, <<"Title">>},
     IconThemePath |-> {None, FlatpakThemePath},
     Id |-> {<<"Foo">>},
     IconName |-> {None, <<"adv">>},
     IconPixmap |-> {"absent", "data"},
     Menu |-> {<<"/", "MenuBar">>}]

PropKeys == DOMAIN PropValues

Profile(title, iconThemePath, iconName, pixmap) ==
    [ToolTip |-> title, IconThemePath |-> iconThemePath, Id |-> <<"Foo">>,
     IconName |-> iconName, IconPixmap |-> pixmap, Menu |-> <<"/", "MenuBar">>]

\* the items a connection starts with: a plain application with a named
\* icon, an application with a tooltip title and a pixmap only, a sandboxed
\* application, an item that advertises nothing but its Id, and an item
\* with a pixmap only
ItemProfiles ==
    {Profile(None, None, <<"adv">>, "absent"),
     Profile(<<"Title">>, None, None, "data"),
     Profile(None, None, None, "data"),
     Profile(None, FlatpakThemePath, <<"adv">>, "data"),
     Profile(None, None, None, "absent")}

\* 'icon-overrides' dictionaries
OverrideChoices ==
    {{}, {[app |-> <<"Foo">>, icon |-> <<"foo">>]},
         {[app |-> <<"Foo">>, icon |-> <<"/", "o.png">>]}}

\* 'icon-fallback-overrides' lists
FallbackChoices == {{}, {<<"Foo">>}}

\* no TrayItem exists
ConnIdle ==
    /\ itemProps = NoProps
    /\ tiProxy = "null"
    /\ tiCancellable = "null"
    /\ tiSignalIds = FALSE
    /\ tiAppId = None
    /\ tiIconThemePath = None
    /\ tiMenuPath = None
    /\ tiFallbackOverrideIcon = None
    /\ tiIcon = Named(FALLBACK_ICON_NAME)
    /\ stIcon = NewStIcon
    /\ tiMenu = "placeholder"
    /\ inflight = {}
    /\ iconOverrides = {}
    /\ iconFallbackOverrides = {}
    /\ reorderTimeoutId = FALSE
    /\ reorderSources = 0
    /\ events = 0
    /\ notified = <<>>

Init == RegInit /\ ConnIdle /\ CodecIdle /\ OrderIdle /\ MenuIdle /\ CallIdle

Next ==
    \/ \E b \in BusNames : NameLost(b) /\ UNCHANGED outsideReg
    \/ \E u \in UniqueIds : DeliverLoss(u) /\ UNCHANGED outsideReg
    \/ \E b \in BusNames, sv \in Services : RegisterStatusNotifierItemAsync(b, sv) /\ UNCHANGED outsideReg
    \/ \E b \in BusNames, ok \in BOOLEAN : ResolveNameOwner(b, ok) /\ UNCHANGED outsideReg
    \/ \E b \in BusNames, sv \in Services :
          /\ RegisterStatusNotifierHostAsync(b, sv)
          /\ UNCHANGED <<connVars, codecVars, orderVars, menuVars, incoming>>
    \/ \E k \in {1, 2} : SeekListReply(k) /\ UNCHANGED outsideReg
    \/ \E k \in {1, 2}, ok \in BOOLEAN : SeekProbeReply(k, ok) /\ UNCHANGED outsideReg
    \/ HealthCheckTimeout /\ UNCHANGED outsideReg
    \/ HcSettled /\ UNCHANGED outsideReg
    \/ \E res \in {"error", "nomenu", "menu"} : HcPropsReply(res) /\ UNCHANGED outsideReg
    \/ \E ok \in BOOLEAN : HcMenuReply(ok) /\ UNCHANGED outsideReg
    \/ \E ok \in BOOLEAN : HcPidReply(ok) /\ UNCHANGED outsideReg
    \/ \E res \in {"error", "plain", "flatpak", "spawnfail"} : HcCgroupReply(res) /\ UNCHANGED outsideReg
    \/ HcRescan /\ UNCHANGED outsideReg
    \/ Disable /\ UNCHANGED outsideReg

Spec == Init /\ [][Next]_vars

(***************************************************************************)
(* The connection's specification: one registrant is tracked and the       *)
(* extension has just constructed its TrayItem.                            *)
(***************************************************************************)
\* the Registry after _registerItemInternal(TiBusName, TiObjectPath)
RegTracking ==
    /\ busState = [b \in BusNames |-> "alive"]
    /\ lossPending = {}
    /\ items = <<[key |-> TiUniqueId, busName |-> TiBusName,
                  objectPath |-> TiObjectPath, appId |-> None]>>
    /\ nameOwnerChangedIds = {TiUniqueId}
    /\ cancelled = FALSE
    /\ healthCheckTimeoutId = TRUE
    /\ pendingDelayIds = {}
    /\ hc = HcAt("timer", 0, NoItem, <<>>, 0)
    /\ seeks = [k \in {1, 2} |-> IF k = 1 THEN SeekDone ELSE SeekIdle]
    /\ resolving = {}
    /\ calls = 0
    /\ enabled = TRUE
    /\ extItems = <<[key |-> TiUniqueId, appId |-> ExtractId(TiBusName, TiObjectPath)]>>
    /\ disabledApps = {}
    /\ emitted = <<>>
    /\ answered = {}
    /\ hcAct = NoAct
    /\ regArg = None

\* TrayItem._init up to the first await of _initProxy
InitConn ==
    /\ RegTracking
    /\ itemProps \in ItemProfiles
    /\ tiProxy = "pending"
    /\ tiCancellable = "live"
    /\ tiSignalIds = FALSE
    /\ tiAppId = ExtractId(TiBusName, TiObjectPath)
    /\ tiIconThemePath = None
    /\ tiMenuPath = None
    /\ tiFallbackOverrideIcon = None
    /\ tiIcon = Named(FALLBACK_ICON_NAME)
    /\ stIcon = NewStIcon
    /\ tiMenu = "placeholder"
    /\ inflight = {[op |-> "ProxyInit", arg |-> None, tok |-> "live"]}
    /\ iconOverrides \in {{}, {[app |-> <<"Foo">>, icon |-> <<"foo">>]}}
    /\ iconFallbackOverrides = {}
    /\ reorderTimeoutId = FALSE
    /\ reorderSources = 0
    /\ events = 0
    /\ notified = <<>>
    /\ CodecIdle
    /\ CallIdle
    /\ MenuIdle
    /\ OrderIdle

NextConn ==
    \/ \E ok, exists, found \in BOOLEAN : ProxyInitReply(ok, exists, found)
    \/ \E key \in PropKeys : \E val \in PropValues[key] :
          \E exists, found \in BOOLEAN : PropertiesChanged(key, val, exists, found)
    \/ NewIcon
    \/ \E ov \in OverrideChoices, fb \in FallbackChoices :
          \E exists, found \in BOOLEAN : SettingsChanged(ov, fb, exists, found)
    \/ \E ok \in BOOLEAN : ToolTipReply(ok)
    \/ \E ok \in BOOLEAN : IdIconThemePathReply(ok)
    \/ \E ok \in BOOLEAN : SniIdReply(ok)
    \/ \E ok \in BOOLEAN : IconThemePathReply(ok)
    \/ \E ok, exists, found \in BOOLEAN : IconNameReply(ok, exists, found)
    \/ \E ok \in BOOLEAN : IconPixmapReply(ok)
    \/ \E ok, found, saysCancelled \in BOOLEAN :
          IconPixmapWithFallbackReply(ok, found, saysCancelled)
    \/ \E ok \in BOOLEAN : MenuReply(ok)
    \/ MenuOpened
    \/ \E ok \in BOOLEAN : AboutToShowReply(ok)
    \/ \E ok \in BOOLEAN : GetLayoutReply(ok)
    \/ TrayItemDestroy

SpecConn == InitConn /\ [][NextConn]_vars

(***************************************************************************)
(* Identity resolution on its own: the connection's first property fetch   *)
(* over every combination of tooltip title, theme path, raw Id and         *)
(* preliminary appId.                                                      *)
(***************************************************************************)
ResolveTitles == {None, <<"Title">>, <<"Foo">>}

ResolveThemePaths ==
    {None, FlatpakThemePath, SystemThemePath,
     <<"/", "run", "/", "user", "/", "abc", "/", "app", "/", "org.x">>,
     <<"/", "run", "/", "user", "/", "1000", "/", "app", "/">>,
     <<"/", "home", "/", "run", "/", "user", "/", "1000", "/", "app", "/", "org.y">>}

ResolveSniIds == {None, <<"Foo">>, <<"Bar">>, <<":", "1">>, <<"chrome_status_icon_", "1">>}

\* _extractId's results: a last path segment or the bus name
PreliminaryAppIds == {ExtractId(b, p) : b \in BusNames, p \in Paths}

InitResolve ==
    /\ RegTracking
    /\ itemProps \in [ToolTip : ResolveTitles, IconThemePath : ResolveThemePaths,
                      Id : ResolveSniIds, IconName : {<<"adv">>},
                      IconPixmap : {"absent"}, Menu : {<<"/", "MenuBar">>}]
    /\ tiProxy = "pending"
    /\ tiCancellable = "live"
    /\ tiSignalIds = FALSE
    /\ tiAppId \in PreliminaryAppIds
    /\ tiIconThemePath = None
    /\ tiMenuPath = None
    /\ tiFallbackOverrideIcon = None
    /\ tiIcon = Named(FALLBACK_ICON_NAME)
    /\ stIcon = NewStIcon
    /\ tiMenu = "placeholder"
    /\ inflight = {[op |-> "ProxyInit", arg |-> None, tok |-> "live"]}
    /\ iconOverrides = {}
    /\ iconFallbackOverrides = {}
    /\ reorderTimeoutId = FALSE
    /\ reorderSources = 0
    /\ events = 0
    /\ notified = <<>>
    /\ CodecIdle
    /\ CallIdle
    /\ MenuIdle
    /\ OrderIdle

NextResolve == \E exists, found \in BOOLEAN : ProxyInitReply(TRUE, exists, found)

SpecResolve == InitResolve /\ [][NextResolve]_vars

(***************************************************************************)
(* Identity resolution on both paths: the proxy initialises, or it fails   *)
(* and the direct reads of _connectToSNIFallback return the same values.   *)
(***************************************************************************)
NextIdentity ==
    \/ \E ok, exists, found \in BOOLEAN : ProxyInitReply(ok, exists, found)
    \/ ToolTipReply(TRUE)
    \/ IdIconThemePathReply(TRUE)
    \/ SniIdReply(TRUE)
    \/ IconThemePathReply(TRUE)

SpecIdentity == InitResolve /\ [][NextIdentity]_vars

(***************************************************************************)
(* The pixel codec and the effect preview on their own: the candidates, a  *)
(* buffer, or a pixel with slider positions are given, and each call site  *)
(* runs once.                                                              *)
(***************************************************************************)
MaxPixmaps == 4

MaxDim == 2

\* widths below, inside and above the range [16, 48]
Widths == {8, 15, 16, 22, 32, 48, 64}

RECURSIVE SeqsUpTo(_, _)
\* the non-empty sequences over S of length at most n
SeqsUpTo(S, n) ==
    IF n = 0 THEN {}
    ELSE SeqsUpTo(S, n - 1) \cup [1..n -> S]

\* [a, r, g, b] pixels with four different bytes, and a grey
ArgbPixels == {<<255, 1, 2, 3>>, <<0, 10, 20, 30>>, <<128, 128, 128, 128>>}

\* the bytes of the pixels ps, contiguous
Flatten(ps) ==
    [k \in 1..(4 * Len(ps)) |-> ps[((k - 1) \div 4) + 1][((k - 1) % 4) + 1]]

ChannelValues == {0, 1, 128, 255}

\* the sliders at rest, the defaults of a dark and of a light theme, a tint
Effects ==
    {NoEffect,
     [desaturation |-> 10, brightness |-> 5, contrast |-> 6,
      useTint |-> FALSE, tint |-> <<10, 10, 10>>],
     [desaturation |-> 10, brightness |-> -5, contrast |-> 6,
      useTint |-> FALSE, tint |-> <<10, 10, 10>>],
     [desaturation |-> 0, brightness |-> 0, contrast |-> 10,
      useTint |-> TRUE, tint |-> <<10, 5, 0>>]}

InitCodec ==
    /\ RegInit
    /\ ConnIdle
    /\ OrderIdle
    /\ MenuIdle
    /\ CallIdle
    /\ \/ /\ pixmaps \in SeqsUpTo(Widths, MaxPixmaps)
          /\ bestPixmap = NoBest
          /\ argbData = <<>> /\ pixWidth = 0 /\ pixHeight = 0 /\ rgba = NoRgba
          /\ srcPixels = None /\ effect = NoEffect /\ newPixels = None
       \/ /\ pixmaps = <<>> /\ bestPixmap = NoBest
          /\ pixWidth \in 1..MaxDim
          /\ pixHeight \in 1..MaxDim
          /\ argbData \in {Flatten(ps) : ps \in [1..(pixWidth * pixHeight) -> ArgbPixels]}
          /\ rgba = NoRgba
          /\ srcPixels = None /\ effect = NoEffect /\ newPixels = None
       \/ /\ pixmaps = <<>> /\ bestPixmap = NoBest
          /\ argbData = <<>> /\ pixWidth = 0 /\ pixHeight = 0 /\ rgba = NoRgba
          /\ srcPixels \in [1..4 -> ChannelValues]
          /\ effect \in Effects
          /\ newPixels = None

NextCodec ==
    \/ TrayItemSetIconFromPixmap /\ UNCHANGED <<regVars, connVars, orderVars, menuVars, callVars>>
    \/ AppRowFetchIconPixmap /\ UNCHANGED <<regVars, connVars, orderVars, menuVars, callVars>>
    \/ DialogSetIconFromPixmap /\ UNCHANGED <<regVars, connVars, orderVars, menuVars, callVars>>
    \/ TrayItemConvert /\ UNCHANGED <<regVars, connVars, orderVars, menuVars, callVars>>
    \/ AppRowConvert /\ UNCHANGED <<regVars, connVars, orderVars, menuVars, callVars>>
    \/ UpdatePreview /\ UNCHANGED <<regVars, connVars, orderVars, menuVars, callVars>>

SpecCodec == InitCodec /\ [][NextCodec]_vars

(***************************************************************************)
(* The panel order on its own: some items are live, in the order they were *)
(* registered, 'app-order' holds any list, and a reorder may be scheduled. *)
(***************************************************************************)
MaxItems == 3

MaxOrder == 2

\* the appId each live connection has resolved; the first one still has
\* its bus name
ResolvedAppId(uniqueId) ==
    IF uniqueId = BusName(1) \o DEFAULT_ITEM_OBJECT_PATH THEN BusName(1)
    ELSE IF uniqueId = BusName(1) \o CustomPath THEN <<"c">>
    ELSE IF uniqueId = BusName(2) \o DEFAULT_ITEM_OBJECT_PATH THEN <<"b">>
    ELSE <<"a">>

\* the sequences over S of length at most n without repetition
DistinctSeqs(S, n) ==
    {<<>>} \cup {q \in SeqsUpTo(S, n) : \A i, j \in 1..Len(q) : i # j => q[i] # q[j]}

\* the values of 'app-order': the preferences write each appId once
OrderLists == DistinctSeqs({<<"a">>, <<"b">>, BusName(1)}, MaxOrder)

\* the Registry's entry of a live item
TrackedItem(uniqueId) ==
    [key |-> uniqueId,
     busName |-> SubSeq(uniqueId, 1, 2),
     objectPath |-> SubSeq(uniqueId, 3, Len(uniqueId)),
     appId |-> ResolvedAppId(uniqueId)]

InitOrder ==
    /\ \E ids \in DistinctSeqs(UniqueIds, MaxItems) :
          /\ extItems = [i \in 1..Len(ids) |->
                            [key |-> ids[i], appId |-> ResolvedAppId(ids[i])]]
          /\ items = [i \in 1..Len(ids) |-> TrackedItem(ids[i])]
          /\ nameOwnerChangedIds = {ids[i] : i \in 1..Len(ids)}
          /\ rightBox = ids
    /\ busState = [b \in BusNames |-> "alive"]
    /\ lossPending = {}
    /\ cancelled = FALSE
    /\ healthCheckTimeoutId = TRUE
    /\ pendingDelayIds = {}
    /\ hc = HcAt("timer", 0, NoItem, <<>>, 0)
    /\ seeks = [k \in {1, 2} |-> IF k = 1 THEN SeekDone ELSE SeekIdle]
    /\ resolving = {}
    /\ calls = 0
    /\ enabled = TRUE
    /\ disabledApps = {}
    /\ emitted = <<>>
    /\ answered = {}
    /\ hcAct = NoAct
    /\ regArg = None
    /\ itemProps = NoProps
    /\ tiProxy = "null"
    /\ tiCancellable = "null"
    /\ tiSignalIds = FALSE
    /\ tiAppId = None
    /\ tiIconThemePath = None
    /\ tiMenuPath = None
    /\ tiFallbackOverrideIcon = None
    /\ tiIcon = Named(FALLBACK_ICON_NAME)
    /\ stIcon = NewStIcon
    /\ tiMenu = "placeholder"
    /\ inflight = {}
    /\ iconOverrides = {}
    /\ iconFallbackOverrides = {}
    /\ reorderTimeoutId \in BOOLEAN
    /\ reorderSources = IF reorderTimeoutId THEN 1 ELSE 0
    /\ events = 0
    /\ notified = <<>>
    /\ CodecIdle
    /\ CallIdle
    /\ MenuIdle
    /\ appOrder \in OrderLists
    /\ position = NoPosition
    /\ reorderAct = NoReorder

NextOrder ==
    \/ \E order \in OrderLists : AppOrderChanged(order)
    \/ ReorderTimeout
    \/ \E appId \in {ResolvedAppId(u) : u \in UniqueIds} : CalculatePositionOf(appId)

SpecOrder == InitOrder /\ [][NextOrder]_vars

(***************************************************************************)
(* The menu's specification: the connection is initialised, its menu path  *)
(* is known, and the menu shows the placeholder or the tree of an earlier  *)
(* layout.                                                                 *)
(***************************************************************************)
Item(id, label) == Node(id, label, "", "", <<>>)

Separator(id) == Node(id, <<>>, "separator", "", <<>>)

SubMenu(id, label, children) == Node(id, label, "", "submenu", children)

Hidden(node) == [node EXCEPT !.visible = FALSE]

Disabled(node) == [node EXCEPT !.enabled = FALSE]

Root(children) == Node(0, <<>>, "", "", children)

\* the layouts an item answers with: no entries; separators in a row; an
\* invisible node between separators; a submenu with separators in a row; a
\* submenu within a submenu; an invisible submenu; a wrapper with id 0; an
\* entry with flat children, a mnemonic and a disabled entry; entries
\* without a label
MenuLayouts ==
    {Root(<<>>),
     Root(<<Item(1, <<"A">>), Separator(2), Separator(3), Item(4, <<"B">>)>>),
     Root(<<Item(1, <<"A">>), Separator(2), Hidden(Item(5, <<"C">>)),
            Separator(3), Item(4, <<"B">>)>>),
     Root(<<SubMenu(1, <<"M">>, <<Item(2, <<"A">>), Separator(3), Separator(4),
                                  Item(5, <<"B">>)>>)>>),
     Root(<<SubMenu(1, <<"M">>, <<SubMenu(2, <<"D">>, <<Item(3, <<"A">>)>>)>>),
            Item(4, <<"B">>)>>),
     Root(<<Hidden(SubMenu(1, <<"M">>, <<Item(2, <<"A">>)>>)), Item(3, <<"B">>)>>),
     Root(<<Root(<<Item(1, <<"A">>), Item(2, <<"B">>)>>)>>),
     Root(<<Node(1, <<"_", "A">>, "", "", <<Item(2, <<"_", "_", "B">>)>>),
            Disabled(Item(3, <<"C">>))>>),
     Root(<<Item(1, <<>>), Item(2, <<"_">>), Item(3, <<"A">>)>>)}

\* what the menu shows when the behaviour starts: the placeholder of _init,
\* or the tree a layout gave at an earlier opening
EarlierLayouts ==
    {Root(<<>>), Root(<<Item(7, <<"Z">>)>>)}

InitMenu ==
    /\ RegTracking
    /\ itemProps = Profile(None, None, <<"adv">>, "absent")
    /\ tiProxy = "ready"
    /\ tiCancellable = "live"
    /\ tiSignalIds = TRUE
    /\ tiAppId = <<"Foo">>
    /\ tiIconThemePath = None
    /\ tiMenuPath = itemProps.Menu
    /\ tiFallbackOverrideIcon = None
    /\ tiIcon = Named(<<"adv">>)
    /\ stIcon = StNamed(<<"adv">>)
    /\ inflight = {}
    /\ iconOverrides = {}
    /\ iconFallbackOverrides = {}
    /\ reorderTimeoutId = FALSE
    /\ reorderSources = 0
    /\ events = 0
    /\ notified = <<>>
    /\ layout \in MenuLayouts
    /\ \/ /\ tiMenu = "placeholder"
          /\ menuItems = <<LoadingItem>>
          /\ tiLastMenuItemType = "null"
          /\ lastBuilt = NoTree
       \/ \E earlier \in EarlierLayouts :
             LET m == BuildMenuFromLayout("null", earlier)
             IN /\ tiMenu = "built"
                /\ menuItems = m.items
                /\ tiLastMenuItemType = m.last
                /\ lastBuilt = m.items
    /\ clicks = 0
    /\ menuAct = NoMenuAct
    /\ CodecIdle
    /\ CallIdle
    /\ OrderIdle

NextMenu ==
    \/ MenuOpened
    \/ \E ok \in BOOLEAN : AboutToShowReply(ok)
    \/ \E ok \in BOOLEAN : GetLayoutReply(ok)
    \/ \E itemId \in ActivatableIds(menuItems) : ActivateMenuItem(itemId)
    \/ \E ok \in BOOLEAN : EventReply(ok)

SpecMenu == InitMenu /\ [][NextMenu]_vars

(***************************************************************************)
(* Registration on its own: one RegisterStatusNotifierItem message, over   *)
(* every sender and every kind of service descriptor, on a bus whose       *)
(* connections come and go.                                                *)
(***************************************************************************)
RegisterServices == Services \cup {HyphenName}

InitRegister ==
    /\ RegInit
    /\ ConnIdle
    /\ CodecIdle
    /\ OrderIdle
    /\ MenuIdle
    /\ incoming \in {MethodCall(b, sv) : b \in BusNames, sv \in RegisterServices}
    /\ hostReplies = <<>>

NextRegister ==
    \/ \E b \in BusNames : NameLost(b) /\ UNCHANGED outsideReg
    \/ \E u \in UniqueIds : DeliverLoss(u) /\ UNCHANGED outsideReg
    \/ RegisterStatusNotifierItemAsync(incoming.sender, incoming.service)
          /\ UNCHANGED outsideReg
    \/ \E ok \in BOOLEAN : ResolveNameOwner(incoming.sender, ok) /\ UNCHANGED outsideReg

SpecRegister == InitRegister /\ [][NextRegister]_vars

(***************************************************************************)
(* The coordinator's specification: StatusTrayExtension with its           *)
(* connection map, the panel box and the settings, next to the Registry.   *)
(* The startup scan has found some items; one more may register.           *)
(***************************************************************************)
\* Main.panel.addToStatusArea(role, item, position, 'right'): the container
\* is inserted at index position of the box, at its end when beyond it
AddToStatusArea(box, uniqueId, pos) ==
    LET i == IF pos > Len(box) THEN Len(box) ELSE pos
    IN SubSeq(box, 1, i) \o <<uniqueId>> \o SubSeq(box, i + 1, Len(box))

\* the position _onItemRegistered computes for uniqueId, given the
\* watcher's map m (lines 2043-2044)
PositionOnRegistered(m, uniqueId) ==
    LET stored == IF Has(m, uniqueId) THEN m[IndexOf(m, uniqueId)].appId ELSE None
        appId == IF stored # None THEN stored ELSE ExtractAppId(uniqueId)
    IN CalculatePosition(appId, appOrder)

\* the panel box after a handler of the Registry: the container of a
\* destroyed connection has left the box, the one _onItemRegistered created
\* is added at its position
PanelFollows ==
    LET kept == SelectSeq(rightBox, LAMBDA k : Has(extItems', k))
        n == Len(extItems')
    IN rightBox' = IF n > 0 /\ ~Has(extItems, extItems'[n].key)
                   THEN AddToStatusArea(kept, extItems'[n].key,
                                        PositionOnRegistered(items', extItems'[n].key))
                   ELSE kept

\* the handler of a TrayItem's 'destroy' signal (lines 2034-2041) when the
\* shell disposes the actor, with StatusNotifierWatcher._removeItemTracking
ExternalDestroy(uniqueId) ==
    /\ enabled
    /\ Has(extItems, uniqueId)
    /\ extItems' = Without(extItems, IndexOf(extItems, uniqueId))
    /\ rightBox' = SelectSeq(rightBox, LAMBDA k : k # uniqueId)
    /\ items' = IF Has(items, uniqueId)
                THEN Without(items, IndexOf(items, uniqueId)) ELSE items
    /\ nameOwnerChangedIds' = nameOwnerChangedIds \ {uniqueId}
    /\ lossPending' = lossPending \ {uniqueId}
    /\ hc' = [hc EXCEPT !.pos = PosAfterDelete(uniqueId)]
    /\ Quiet
    /\ position' = NoPosition
    /\ reorderAct' = NoReorder
    /\ UNCHANGED <<busState, cancelled, healthCheckTimeoutId, pendingDelayIds,
                   seeks, resolving, calls, enabled, disabledApps, answered,
                   connVars, codecVars, menuVars, callVars, appOrder>>

\* a connection emits 'appid-resolved' with appId (line 405): the handler of
\* lines 2024-2028
AppIdResolved(uniqueId, appId) ==
    /\ enabled
    /\ Has(extItems, uniqueId)
    /\ extItems[IndexOf(extItems, uniqueId)].appId # appId
    /\ extItems' = UpdateItemAppId(extItems, uniqueId, appId)
    /\ items' = UpdateItemAppId(items, uniqueId, appId)
    /\ ScheduleReorder
    /\ Quiet
    /\ position' = NoPosition
    /\ reorderAct' = NoReorder
    /\ UNCHANGED <<busState, lossPending, nameOwnerChangedIds, cancelled,
                   healthCheckTimeoutId, pendingDelayIds, hc, seeks, resolving,
                   calls, enabled, disabledApps, answered, connButReorder,
                   events, codecVars, menuVars, callVars, appOrder, rightBox>>

RECURSIVE AddMissing(_, _, _, _)
\* the second loop of _refreshItems from entry i of the watcher's map m:
\* _onItemRegistered for every tracked id; st holds the connection map and
\* the panel box
AddMissing(st, disabled, m, i) ==
    IF i > Len(m) THEN st
    ELSE LET e == m[i]
             ext == OnItemRegisteredIn(st.ext, disabled, m, e.key, e.busName,
                                       e.objectPath)
             box == IF ext # st.ext
                    THEN AddToStatusArea(st.box, e.key, PositionOnRegistered(m, e.key))
                    ELSE st.box
         IN AddMissing([ext |-> ext, box |-> box], disabled, m, i + 1)

\* _refreshItems without its second loop
RefreshItems_RemoveOnly(disabled) ==
    /\ items' = items
    /\ extItems' = SelectSeq(extItems, LAMBDA e : e.appId \notin disabled)
    /\ rightBox' = SelectSeq(rightBox, LAMBDA k : Has(extItems', k))
    /\ UNCHANGED <<reorderTimeoutId, reorderSources>>

\* StatusTrayExtension._refreshItems with 'disabled-apps' holding disabled
RefreshItems(disabled) ==
    LET gone == {i \in 1..Len(extItems) : extItems[i].appId \in disabled}
        m1 == [j \in 1..Len(items) |->
                 IF \E i \in gone : extItems[i].key = items[j].key
                 THEN [items[j] EXCEPT !.appId =
                         extItems[IndexOf(extItems, items[j].key)].appId]
                 ELSE items[j]]
        ext1 == SelectSeq(extItems, LAMBDA e : e.appId \notin disabled)
        box1 == SelectSeq(rightBox, LAMBDA k : Has(ext1, k))
        st == AddMissing([ext |-> ext1, box |-> box1], disabled, m1, 1)
        itemsAdded == \E j \in 1..Len(m1) : ~Has(ext1, m1[j].key)
    IN /\ items' = m1
       /\ extItems' = st.ext
       /\ rightBox' = st.box
       /\ IF itemsAdded THEN ScheduleReorder
          ELSE UNCHANGED <<reorderTimeoutId, reorderSources>>

\* the 'changed::disabled-apps' handler of enable
DisabledAppsChanged(disabled) ==
    /\ enabled
    /\ disabled # disabledApps
    /\ disabledApps' = disabled
    /\ RefreshItems(disabled)
    /\ Quiet
    /\ position' = NoPosition
    /\ reorderAct' = NoReorder
    /\ UNCHANGED <<busState, lossPending, nameOwnerChangedIds, cancelled,
                   healthCheckTimeoutId, pendingDelayIds, hc, seeks, resolving,
                   calls, enabled, answered, connButReorder, events, codecVars,
                   menuVars, callVars, appOrder>>

\* StatusTrayExtension.disable with the reorder timer and the panel
CoordDisable ==
    /\ Disable
    /\ reorderTimeoutId' = FALSE
    /\ reorderSources' = IF reorderTimeoutId THEN reorderSources - 1
                         ELSE reorderSources
    /\ rightBox' = <<>>
    /\ position' = NoPosition
    /\ reorderAct' = NoReorder
    /\ UNCHANGED <<connButReorder, events, codecVars, menuVars, callVars, appOrder>>

\* a handler of the Registry within the coordinator
InCoord(handler) ==
    /\ handler
    /\ PanelFollows
    /\ position' = NoPosition
    /\ reorderAct' = NoReorder
    /\ UNCHANGED <<connVars, codecVars, menuVars, callVars, appOrder>>

\* the appId the connection of uniqueId resolves from its item's properties
CoordAppId(uniqueId) ==
    IF uniqueId = BusName(1) \o DEFAULT_ITEM_OBJECT_PATH THEN <<"a">>
    ELSE IF uniqueId = BusName(2) \o DEFAULT_ITEM_OBJECT_PATH THEN <<"b">>
    ELSE <<"c">>

\* the 'disabled-apps' lists

DisabledChoices == SUBSET {<<"a">>, <<"Foo">>}

\* the values of 'app-order'
CoordOrders == {<<>>, <<<<"b">>, <<"a">>>>}

\* the items the startup scan found, in the order of the bus names
ScannedIds ==
    {<<>>, <<BusName(1) \o DEFAULT_ITEM_OBJECT_PATH>>,
     <<BusName(1) \o DEFAULT_ITEM_OBJECT_PATH, BusName(2) \o DEFAULT_ITEM_OBJECT_PATH>>}

RECURSIVE AddScanned(_, _)
\* the box after _onItemRegistered for the first n scanned ids: each is
\* added at the position of its bus name
AddScanned(ids, n) ==
    IF n = 0 THEN <<>>
    ELSE AddToStatusArea(AddScanned(ids, n - 1), ids[n],
                         CalculatePosition(ExtractAppId(ids[n]), appOrder))

InitCoord ==
    /\ \E ids \in ScannedIds :
          /\ items = [i \in 1..Len(ids) |->
                        [key |-> ids[i], busName |-> SubSeq(ids[i], 1, 2),
                         objectPath |-> SubSeq(ids[i], 3, Len(ids[i])),
                         appId |-> None]]
          /\ extItems = [i \in 1..Len(ids) |->
                           [key |-> ids[i],
                            appId |-> ExtractId(SubSeq(ids[i], 1, 2),
                                                SubSeq(ids[i], 3, Len(ids[i])))]]
          /\ nameOwnerChangedIds = {ids[i] : i \in 1..Len(ids)}
          /\ appOrder \in CoordOrders
          /\ rightBox = AddScanned(ids, Len(ids))
    /\ busState = [b \in BusNames |-> "alive"]
    /\ lossPending = {}
    /\ cancelled = FALSE
    /\ healthCheckTimeoutId = TRUE
    /\ pendingDelayIds = {}
    /\ hc = HcAt("timer", 0, NoItem, <<>>, 0)
    /\ seeks = [k \in {1, 2} |-> IF k = 1 THEN SeekDone ELSE SeekIdle]
    /\ resolving = {}
    /\ calls = 0
    /\ enabled = TRUE
    /\ disabledApps = {}
    /\ emitted = <<>>
    /\ answered = {}
    /\ hcAct = NoAct
    /\ regArg = None
    /\ ConnIdle
    /\ CodecIdle
    /\ MenuIdle
    /\ CallIdle
    /\ position = NoPosition
    /\ reorderAct = NoReorder

NextCoord ==
    \/ \E b \in BusNames : InCoord(NameLost(b))
    \/ \E u \in UniqueIds : InCoord(DeliverLoss(u))
    \/ InCoord(RegisterStatusNotifierItemAsync(BusName(2), CustomPath))
    \/ \E u \in UniqueIds : ExternalDestroy(u)
    \/ \E u \in UniqueIds : AppIdResolved(u, CoordAppId(u))
    \/ \E d \in DisabledChoices : DisabledAppsChanged(d)
    \/ \E order \in CoordOrders : AppOrderChanged(order)
    \/ ReorderTimeout
    \/ CoordDisable

SpecCoord == InitCoord /\ [][NextCoord]_vars

(***************************************************************************)
(* Properties of the Registry.                                             *)
(***************************************************************************)
NoDuplicateKeys(m) == \A i, j \in 1..Len(m) : m[i].key = m[j].key => i = j

\* C1 -- Registration dedup.  The tracked set never holds two entries for one
\* uniqueId; a step that registers a uniqueId that is already tracked changes
\* nothing and emits nothing; a step that registers an untracked uniqueId
\* tracks it and (while the broker is exported) emits exactly one
\* ItemRegistered for it; and ItemRegistered(u) is emitted by no other step.
C1_RegistrationDedup ==
    [][ /\ NoDuplicateKeys(items')
        /\ \A u \in UniqueIds :
            /\ (regArg' = u /\ Has(items, u)) =>
                  /\ items' = items
                  /\ nameOwnerChangedIds' = nameOwnerChangedIds
                  /\ extItems' = extItems
                  /\ emitted' = <<>>
            /\ (regArg' = u /\ ~Has(items, u)) =>
                  /\ Has(items', u)
                  /\ ~cancelled => emitted' = <<Signal("ItemRegistered", u)>>
            /\ SeqHas(emitted', Signal("ItemRegistered", u)) =>
                  (regArg' = u /\ ~Has(items, u))
      ]_vars

\* a registration of a uniqueId that was already tracked has just been ignored
C1_SecondRegistrationIgnored ==
    /\ regArg # None
    /\ ~cancelled
    /\ Has(items, regArg)
    /\ emitted = <<>>

\* C2 -- Unregister-on-loss.  When the loss notification of a tracked uniqueId
\* is handled the entry and its subscription are removed and exactly one
\* ItemUnregistered is emitted; ItemUnregistered(u) is only ever emitted by a
\* step that removes u; and a health-check eviction of a uniqueId that is no
\* longer tracked changes nothing and emits nothing.
C2_UnregisterOnLoss ==
    [][ \A u \in UniqueIds :
            /\ (u \in lossPending /\ u \notin lossPending' /\ ~cancelled') =>
                  /\ Has(items, u) /\ ~Has(items', u)
                  /\ u \notin nameOwnerChangedIds'
                  /\ emitted' = <<Signal("ItemUnregistered", u)>>
            /\ SeqHas(emitted', Signal("ItemUnregistered", u)) =>
                  (Has(items, u) /\ ~Has(items', u) /\ Len(emitted') = 1)
            /\ (hcAct'.uniqueId = u /\ ~Has(items, u)) =>
                  /\ items' = items
                  /\ nameOwnerChangedIds' = nameOwnerChangedIds
                  /\ extItems' = extItems
                  /\ emitted' = <<>>
      ]_vars

\* the loss of a dead connection's item has just been handled
C2_LossHandled ==
    \E u \in UniqueIds :
        /\ emitted = <<Signal("ItemUnregistered", u)>>
        /\ hcAct = NoAct
        /\ ~Has(items, u)
        /\ \E b \in BusNames : busState[b] = "dead" /\ u = b \o SubSeq(u, 3, Len(u))

\* C3 -- In every health-check run, a tracked item that answered every probe
\* made of it is neither unregistered by the health check nor has the process
\* that owns its bus name terminated.
C3_HealthyItemUntouched ==
    [][ \A a \in answered :
            Has(items, a.uniqueId) =>
                /\ hcAct' # NoAct => Has(items', a.uniqueId)
                /\ ~(hcAct'.killed /\ hcAct'.busName = a.busName)
      ]_vars

\* the process of a stale item was terminated while another item of the same
\* connection had answered its probes and is still tracked
C3_HealthySiblingKilled ==
    /\ hcAct.killed
    /\ \E a \in answered :
          /\ a.busName = hcAct.busName
          /\ a.uniqueId # hcAct.uniqueId
          /\ Has(items, a.uniqueId)

\* C4 -- For each stale item: its process is terminated only if its lineage
\* is sandboxed, and then the Registry leaves the entry alone; when the
\* lineage is not sandboxed or not known the entry is unregistered directly.
C4_StaleItemHandling ==
    [][ hcAct' # NoAct =>
            /\ hcAct'.killed => hcAct'.lineage = "sandboxed"
            /\ hcAct'.killed =>
                  /\ items' = items
                  /\ nameOwnerChangedIds' = nameOwnerChangedIds
                  /\ emitted' = <<>>
            /\ hcAct'.lineage # "sandboxed" =>
                  /\ ~Has(items', hcAct'.uniqueId)
                  /\ (Has(items, hcAct'.uniqueId) /\ ~cancelled) =>
                        emitted' = <<Signal("ItemUnregistered", hcAct'.uniqueId)>>
      ]_vars

\* a sandboxed stale item's process has been terminated and the entry is kept
C4_KilledAndKept ==
    /\ hcAct.killed
    /\ hcAct.lineage = "sandboxed"
    /\ Has(items, hcAct.uniqueId)

\* C5 -- Broker teardown fully cancels the health check: once the Registry is
\* destroyed no health-check timer and no delay is pending.
C5_TeardownCancelsHealthCheck ==
    cancelled => (~healthCheckTimeoutId /\ pendingDelayIds = {})

\* the Registry is destroyed and the post-eviction delay has been installed
C5_DelayAfterDestroy ==
    /\ cancelled
    /\ "rescan" \in pendingDelayIds
    /\ hc.pc = "wait"

(***************************************************************************)
(* Properties of one connection.                                           *)
(***************************************************************************)
\* C6 -- Destroying a connection cancels every remote call it has in flight,
\* and after destroy no step changes appId, the menu path, the icon or the
\* menu tree, starts a remote call or emits 'appid-resolved'.
C6_DestroyCancelsAndSilences ==
    [][ /\ (tiCancellable = "live" /\ tiCancellable' = "null") =>
              \A c \in inflight' : c.tok = "cancelled"
        /\ tiCancellable = "null" =>
              /\ tiAppId' = tiAppId
              /\ tiMenuPath' = tiMenuPath
              /\ tiIcon' = tiIcon
              /\ tiMenu' = tiMenu
              /\ inflight' \subseteq inflight
              /\ notified' = <<>>
      ]_vars

\* the destroyed connection has started a property read that nothing cancels
C6_CallStartedAfterDestroy ==
    /\ tiCancellable = "null"
    /\ \E c \in inflight :
          c.tok = "none" /\ c.op \in {"ToolTip", "IdIconThemePath", "Id", "IconName"}

\* C7 -- Identity notification is exactly-once per change on every path: a
\* step that leaves appId at its value emits nothing and leaves the Registry
\* entry alone; a step that changes appId emits the new value once, and the
\* handler stores it in the Registry entry and schedules the reorder.
C7_NotifyOncePerChange ==
    [][ /\ tiAppId' = tiAppId => (notified' = <<>> /\ items' = items)
        /\ tiAppId' # tiAppId =>
              /\ notified' = <<tiAppId'>>
              /\ tiCancellable = "live" =>
                    /\ items' = UpdateItemAppId(items, TiUniqueId, tiAppId')
                    /\ reorderTimeoutId'
      ]_vars

\* the direct-call path has just notified the value appId has had since the
\* connection was constructed
C7_SameValueNotified ==
    /\ tiProxy = "failed"
    /\ tiAppId = ExtractId(TiBusName, TiObjectPath)
    /\ notified = <<tiAppId>>
    /\ reorderTimeoutId

\* C8 -- After any change of the tooltip title, the theme path or the raw Id
\* delivered to a connected item, appId is the priority resolution over the
\* current properties, or its previous value when that is unresolved.
C8_ReResolvedOnChange ==
    [][ (/\ tiProxy = "ready"
         /\ \E key \in {"ToolTip", "IconThemePath", "Id"} :
               itemProps'[key] # itemProps[key]) =>
            LET r == ResolveAppId(itemProps'.ToolTip, itemProps'.IconThemePath,
                                  itemProps'.Id)
            IN tiAppId' = IF r # None THEN r ELSE tiAppId
      ]_vars

\* the item's tooltip title changed and appId is still the old guess
C8_StaleIdentity ==
    /\ tiProxy = "ready"
    /\ events = 1
    /\ itemProps.ToolTip = <<"Title">>
    /\ tiAppId = <<"Foo">>

\* the sandbox runtime fragment /run/user/<digits>/app/<segment> starts at
\* token i of path p
SandboxFragmentAt(p, i) ==
    /\ i + 9 <= Len(p)
    /\ \E d \in {"1000"} :
          SubSeq(p, i, i + 8) = <<"/", "run", "/", "user", "/", d, "/", "app", "/">>
    /\ p[i + 9] # "/"

C10_OverridePrecedence ==
    [][ LET o == OverrideOf(iconOverrides', tiAppId')
        IN (/\ tiIcon' # tiIcon
            /\ o # None
            /\ tiAppId' \notin iconFallbackOverrides') =>
              tiIcon' = IF StartsWith(o, "/") THEN File(o) ELSE Named(o)
      ]_vars

\* a NewIcon notification has replaced the override by the advertised icon
C10_OverrideReplaced ==
    /\ tiProxy = "ready"
    /\ events = 1
    /\ OverrideOf(iconOverrides, tiAppId) = <<"foo">>
    /\ tiAppId \notin iconFallbackOverrides
    /\ tiIcon \in {Named(<<"adv">>), File(<<"adv">>)}

\* the sources an override icon o can be shown as
OverrideSources(o) == {Named(o), File(o)}

\* C11 -- Fallback-only semantics: when the overrides hold an entry for appId,
\* appId is in the fallback-only list and the item advertises a non-empty
\* named icon, every step that changes the shown icon shows the item's own
\* icon (its named icon as Named or File, or its pixmap when the theme path
\* cannot be read), not the override.
C11_FallbackOnlyKeepsOwnIcon ==
    [][ (/\ OverrideOf(iconOverrides', tiAppId') # None
         /\ tiAppId' \in iconFallbackOverrides'
         /\ itemProps'.IconName # None
         /\ tiIcon' # tiIcon) =>
            tiIcon' \in {Named(itemProps'.IconName), File(itemProps'.IconName), Pixmap}
      ]_vars

\* a settings change on a connection whose proxy has no cache shows the
\* fallback-only override although the item advertises the icon "adv"
C11_OverrideShownDespiteOwnIcon ==
    /\ tiProxy = "failed"
    /\ events = 1
    /\ itemProps.IconName = <<"adv">>
    /\ tiAppId \in iconFallbackOverrides
    /\ tiFallbackOverrideIcon = <<"foo">>
    /\ tiIcon = Named(<<"foo">>)

\* C12 -- When the item advertises no named icon (and no authoritative
\* override applies), the pixel buffer is tried before the fallback-only
\* override: every step that changes the shown icon of an item that has a
\* pixmap shows Pixmap.
C12_PixmapBeforeFallbackOverride ==
    [][ (/\ itemProps'.IconName = None
         /\ itemProps'.IconPixmap = "data"
         /\ ~(/\ OverrideOf(iconOverrides', tiAppId') # None
              /\ tiAppId' \notin iconFallbackOverrides')
         /\ tiIcon' # tiIcon) =>
            tiIcon' = Pixmap
      ]_vars

\* the fallback-only override is shown for an item that has a pixmap
C12_OverrideBeforePixmap ==
    /\ tiProxy = "ready"
    /\ itemProps.IconName = None
    /\ itemProps.IconPixmap = "data"
    /\ tiAppId \in iconFallbackOverrides
    /\ tiIcon \in OverrideSources(tiFallbackOverrideIcon)

(***************************************************************************)
(* Properties of the pixel codec and of the effect preview.                *)
(***************************************************************************)
\* the candidates of ws whose width lies in [16, 48]
InRange(ws) == {i \in 1..Len(ws) : ws[i] >= 16 /\ ws[i] <= 48}

\* the earliest in-range candidate nearest to target t, or the first
\* candidate when none is in range
NearestInRange(ws, t) ==
    IF InRange(ws) = {} THEN 1
    ELSE CHOOSE i \in InRange(ws) :
            \A j \in InRange(ws) :
               \/ Abs(ws[i] - t) < Abs(ws[j] - t)
               \/ Abs(ws[i] - t) = Abs(ws[j] - t) /\ i <= j

\* C13 -- selectBestSize, for every non-empty candidate list: if a candidate
\* has its width in [16, 48] the result is the earliest of the in-range
\* candidates nearest to the target, else the first candidate (live icon with
\* target 22, row preview with target 24).
C13_SelectBestSize ==
    [][ /\ bestPixmap'.TrayItem # bestPixmap.TrayItem =>
              bestPixmap'.TrayItem = NearestInRange(pixmaps, TrayItemTargetSize)
        /\ bestPixmap'.AppRow # bestPixmap.AppRow =>
              bestPixmap'.AppRow = NearestInRange(pixmaps, AppRowTargetSize)
      ]_vars

\* of the candidates 15 and 32 the live icon took the out-of-range 15
C13_OutOfRangeChosen ==
    /\ pixmaps = <<15, 32>>
    /\ bestPixmap.TrayItem = 1

\* C14 -- The best-size selection is the same algorithm at the three call
\* sites: for the same candidates and the same target value (22, 24 or 64)
\* the three implementations choose the same candidate.
C14_SameSelectionEverywhere ==
    (bestPixmap.TrayItem # 0 /\ bestPixmap.AppRow # 0 /\ bestPixmap.Dialog # 0) =>
        \A t \in {TrayItemTargetSize, AppRowTargetSize, DialogTargetSize} :
            /\ TrayItemBestPixmap(pixmaps, t) = AppRowBestPixmap(pixmaps, t)
            /\ AppRowBestPixmap(pixmaps, t) = DialogBestPixmap(pixmaps, t)

\* the editing preview took the 64 pixel candidate that the loops of the
\* other two sites pass over for the same target
C14_DialogChoosesOutOfRange ==
    /\ pixmaps = <<32, 64>>
    /\ bestPixmap.TrayItem # 0 /\ bestPixmap.AppRow # 0
    /\ bestPixmap.Dialog = 2
    /\ TrayItemBestPixmap(pixmaps, DialogTargetSize) = 1
    /\ AppRowBestPixmap(pixmaps, DialogTargetSize) = 1

\* out holds, pixel for pixel, [R, G, B, A] of the [A, R, G, B] pixels of in
RgbaOfArgb(in, out, n) ==
    /\ Len(out) = 4 * n
    /\ \A i \in 0..(n - 1) :
          /\ out[4 * i + 1] = in[4 * i + 2]
          /\ out[4 * i + 2] = in[4 * i + 3]
          /\ out[4 * i + 3] = in[4 * i + 4]
          /\ out[4 * i + 4] = in[4 * i + 1]

\* C15 -- argbToRgba maps every pixel [A,R,G,B] of a buffer of width*height
\* pixels to [R,G,B,A] at the same pixel index, and the output has exactly
\* width*height pixels of 4 bytes.
C15_ArgbToRgba ==
    [][ /\ rgba'.TrayItem # rgba.TrayItem =>
              RgbaOfArgb(argbData, rgba'.TrayItem, pixWidth * pixHeight)
        /\ rgba'.AppRow # rgba.AppRow =>
              RgbaOfArgb(argbData, rgba'.AppRow, pixWidth * pixHeight)
      ]_vars

\* both sites converted a 2x2 buffer whose first pixel is [255, 1, 2, 3]
C15_BufferConverted ==
    /\ pixWidth = 2 /\ pixHeight = 2
    /\ SubSeq(argbData, 1, 4) = <<255, 1, 2, 3>>
    /\ rgba.TrayItem # None
    /\ rgba.AppRow # None
    /\ SubSeq(rgba.TrayItem, 1, 4) = <<1, 2, 3, 255>>

\* C16 -- EffectTransform with desaturation 0, brightness 0, contrast 1 and
\* tint off is the identity: the pixel written has the R, G, B and alpha of
\* the source pixel.
C16_NeutralEffectIsIdentity ==
    [][ (/\ effect.desaturation = 0
         /\ effect.brightness = 0
         /\ effect.contrast = 10
         /\ ~effect.useTint
         /\ newPixels' # newPixels) =>
            newPixels' = srcPixels
      ]_vars

\* the preview of a pixel with four different channels was computed with
\* the sliders at rest
C16_NeutralPreviewDone ==
    /\ effect = NoEffect
    /\ srcPixels = <<0, 1, 128, 255>>
    /\ newPixels = <<0, 1, 128, 255>>

(***************************************************************************)
(* Properties of the panel order.                                          *)
(***************************************************************************)
\* order without its transient (':'-prefixed) entries
WithoutTransient(order) ==
    LET keep == {i \in 1..Len(order) : order[i][1] # ":"}
        F[i \in 0..Len(order)] ==
            IF i = 0 THEN <<>>
            ELSE IF i \in keep THEN Append(F[i - 1], order[i]) ELSE F[i - 1]
    IN F[Len(order)]

\* the 0-based index of the first occurrence of id in list, -1 when absent
FirstIndex(list, id) ==
    LET at == {i \in 1..Len(list) : list[i] = id}
    IN IF at = {} THEN -1 ELSE (CHOOSE i \in at : \A j \in at : i <= j) - 1

AlphaRank(appId) ==
    IF appId[1] = ":" THEN 0
    ELSE IF appId \in {<<"a">>, <<"A">>} THEN 1
    ELSE IF appId \in {<<"b">>, <<"B">>} THEN 2
    ELSE 3

\* entry i of m comes before entry j in the order the reorder is to produce
\* for the order list order
ComesBefore(m, order, i, j) ==
    LET f == WithoutTransient(order)
        ii == FirstIndex(f, m[i].appId)
        jj == FirstIndex(f, m[j].appId)
    IN IF ii # -1 /\ jj # -1 THEN ii < jj \/ (ii = jj /\ i < j)
       ELSE IF ii # -1 THEN TRUE
       ELSE IF jj # -1 THEN FALSE
       ELSE \/ AlphaRank(m[i].appId) < AlphaRank(m[j].appId)
            \/ AlphaRank(m[i].appId) = AlphaRank(m[j].appId) /\ i < j

\* m in that order
InPanelOrder(m, order) ==
    LET n == Len(m)
        p == CHOOSE q \in [1..n -> 1..n] :
                /\ \A a, b \in 1..n : a # b => q[a] # q[b]
                /\ \A a, b \in 1..n : a < b => ComesBefore(m, order, q[a], q[b])
    IN [k \in 1..n |-> m[p[k]]]

\* C18 -- reorder produces, for any live set and order list: first the
\* connections whose appId is in the order list filtered of transient
\* identities, by their index in it, then the connections absent from it,
\* ordered among themselves case-insensitively alphabetically by appId with
\* insertion order kept on ties.
C18_ReorderResult ==
    [][ reorderAct'.did \in {"skipped", "reordered"} =>
            extItems' = InPanelOrder(extItems, appOrder')
      ]_vars

\* after a reorder for the order list ["b"] the two absent items are in
\* their insertion order c, a
C18_AbsentKeepInsertionOrder ==
    /\ reorderAct.did = "reordered"
    /\ appOrder = <<<<"b">>>>
    /\ [i \in 1..Len(extItems) |-> extItems[i].appId] = <<<<"b">>, <<"c">>, <<"a">>>>

\* C19 -- reorder is idempotent and a no-op on an unchanged order: when the
\* computed order equals the current order it changes neither the map nor
\* the panel; the order it leaves is a fixed point; and a second run with
\* the same live set and order list reports no change.
C19_ReorderIdempotent ==
    [][ reorderAct'.did \in {"skipped", "reordered"} =>
            /\ Keys(SortEntries(extItems, appOrder')) = Keys(extItems) =>
                  /\ reorderAct'.did = "skipped"
                  /\ extItems' = extItems
                  /\ rightBox' = rightBox
            /\ SortEntries(extItems', appOrder') = extItems'
            /\ reorderAct'.repeat => reorderAct'.did = "skipped"
      ]_vars

\* 'app-order' has changed, and a run of reorder that directly followed
\* another run with the same order list and the same three items skipped
C19_SecondRunSkipped ==
    /\ reorderAct = [did |-> "skipped", repeat |-> TRUE]
    /\ events = 1
    /\ Len(extItems) = 3
    /\ rightBox = Keys(extItems)

\* C20 -- reorder never destroys or creates a connection: after any reorder
\* the map holds the same uniqueIds with the same connections (same appId),
\* the panel holds the same containers, the Registry's entries and the
\* connection's own state are as before; only the order changes.
C20_ReorderKeepsConnections ==
    [][ reorderAct'.did \in {"skipped", "reordered"} =>
            /\ Len(extItems') = Len(extItems)
            /\ {extItems'[i] : i \in 1..Len(extItems')} =
                  {extItems[i] : i \in 1..Len(extItems)}
            /\ Len(rightBox') = Len(rightBox)
            /\ {rightBox'[i] : i \in 1..Len(rightBox')} =
                  {rightBox[i] : i \in 1..Len(rightBox)}
            /\ items' = items
            /\ UNCHANGED <<tiAppId, tiIcon, tiMenu, tiMenuPath>>
      ]_vars

\* three items were reordered, one of them absent from the order list
C20_ThreeReordered ==
    /\ reorderAct.did = "reordered"
    /\ Len(extItems) = 3
    /\ \E i \in 1..3 : FirstIndex(appOrder, extItems[i].appId) = -1
    /\ KeySet(extItems) = {rightBox[i] : i \in 1..3}


(***************************************************************************)
(* Properties of the menu.                                                 *)
(***************************************************************************)
\* the last step was a call of the menu handler did
MenuStep(did) == menuAct' # menuAct /\ menuAct'.did = did

\* C21: every menu-open sends AboutToShow for root id 0 and shows the
\* placeholder; a GetLayout call (parent 0, depth -1, all properties) is
\* sent only by the step that handles the AboutToShow reply, and by every
\* such step, whether the reply is a success or an error; the placeholder
\* is replaced only by the tree of a successful layout
C21_MenuOpenOrder ==
    [][LET sent == inflight' \ inflight
           done == inflight \ inflight'
       IN /\ MenuStep("loadMenu")
                => /\ sent = {MenuCall("AboutToShow", <<0>>, menuAct'.n)}
                   /\ done = {}
                   /\ menuItems' = <<LoadingItem>>
          /\ \A c \in sent : c.op = "GetLayout"
                => /\ c.arg = <<0, -1, <<>>>>
                   /\ \E a \in done : a.op = "AboutToShow" /\ a.n = c.n
          /\ \A a \in done : a.op = "AboutToShow"
                => \E c \in sent : c.op = "GetLayout" /\ c.n = a.n
          /\ (menuItems = <<LoadingItem>> /\ menuItems' # <<LoadingItem>>)
                => /\ MenuStep("fetchMenuLayout")
                   /\ menuAct'.ok
                   /\ menuItems' = BuildMenuFromLayout("null", layout).items
      ]_vars

\* the layout was requested after AboutToShow failed, the placeholder showing
C21_LayoutAfterFailedAboutToShow ==
    /\ menuAct.did = "aboutToShow"
    /\ ~menuAct.ok
    /\ \E c \in inflight : c.op = "GetLayout" /\ c.n = menuAct.n
    /\ menuItems = <<LoadingItem>>

\* C22: after a failed layout request the menu shows the tree of the last
\* successful layout, and the placeholder only when no layout ever
\* succeeded; after a successful one it shows the tree of the new layout
C22_FailedLayoutKeepsTree ==
    menuAct.did = "fetchMenuLayout"
        => IF menuAct.ok
           THEN menuItems = BuildMenuFromLayout("null", layout).items
           ELSE menuItems = IF lastBuilt = NoTree THEN <<LoadingItem>>
                            ELSE lastBuilt

\* a layout request failed and the placeholder replaced the earlier tree
C22_PlaceholderOverTree ==
    /\ menuAct.did = "fetchMenuLayout"
    /\ ~menuAct.ok
    /\ lastBuilt # NoTree
    /\ lastBuilt # <<>>
    /\ menuItems = <<LoadingItem>>

RECURSIVE SeparatorsCollapsed(_)
SeparatorsCollapsed(entries) ==
    /\ \A i \in 1..(Len(entries) - 1) :
          ~(entries[i].kind = "separator" /\ entries[i + 1].kind = "separator")
    /\ \A i \in 1..Len(entries) : SeparatorsCollapsed(entries[i].sub)

\* C23: at no level of the menu (top level or submenu) are two separators
\* adjacent
C23_NoAdjacentSeparators == SeparatorsCollapsed(menuItems)

\* the top level has no two separators in a row, a submenu has
C23_SubmenuSeparatorsInRow ==
    /\ menuAct.did = "fetchMenuLayout"
    /\ menuAct.ok
    /\ \A i \in 1..(Len(menuItems) - 1) :
          ~(menuItems[i].kind = "separator" /\ menuItems[i + 1].kind = "separator")
    /\ \E i \in 1..Len(menuItems) :
          /\ menuItems[i].kind = "submenu"
          /\ ~SeparatorsCollapsed(menuItems[i].sub)

\* the nodes of a layout, and those with no invisible node on their path
RECURSIVE NodesOf(_)
NodesOf(node) ==
    {node} \cup UNION {NodesOf(node.children[i]) : i \in 1..Len(node.children)}

RECURSIVE ShownNodes(_)
ShownNodes(node) ==
    IF ~node.visible THEN {}
    ELSE {node} \cup
         UNION {ShownNodes(node.children[i]) : i \in 1..Len(node.children)}

\* the entries of a menu and of its submenus
RECURSIVE AllEntries(_)
AllEntries(entries) ==
    UNION {{entries[i]} \cup AllEntries(entries[i].sub) : i \in 1..Len(entries)}

IdsOf(entries) == {entries[i].id : i \in 1..Len(entries)}

VisibleChildIds(node) ==
    {node.children[i].id : i \in {j \in 1..Len(node.children) :
                                     node.children[j].visible}}

\* C24: in the menu built from a layout, no node that is invisible or below
\* an invisible node has an entry; a node with id 0 and an empty label has
\* no entry and its visible children have entries at the top level; a node
\* with children-display 'submenu' and children has a submenu entry that
\* holds the entries of its visible children
C24_TreeNormalization ==
    (menuAct.did = "fetchMenuLayout" /\ menuAct.ok)
        => LET shown == ShownNodes(layout) \ {layout}
               entries == AllEntries(menuItems)
           IN /\ \A x \in NodesOf(layout) \ ShownNodes(layout) :
                    \A e \in entries : e.id # x.id
              /\ \A x \in shown :
                    (x.id = 0 /\ stripMnemonics(x.label) = <<>>)
                        => /\ \A e \in entries : e.id # 0
                           /\ VisibleChildIds(x) \subseteq IdsOf(menuItems)
              /\ \A x \in shown :
                    (x.childrenDisplay = "submenu" /\ Len(x.children) > 0)
                        => \E e \in entries :
                              /\ e.kind = "submenu"
                              /\ e.id = x.id
                              /\ IdsOf(e.sub) = VisibleChildIds(x)

\* a submenu node below a submenu node was made a plain entry without its
\* children
C24_NestedSubmenuFlattened ==
    /\ menuAct.did = "fetchMenuLayout"
    /\ menuAct.ok
    /\ \E x \in ShownNodes(layout) \ {layout} :
          /\ x.childrenDisplay = "submenu"
          /\ Len(x.children) > 0
          /\ \E e \in AllEntries(menuItems) :
                e.id = x.id /\ e.kind = "item" /\ e.sub = <<>>
          /\ \A e \in AllEntries(menuItems) : e.id \notin VisibleChildIds(x)

\* C25: an activation sends one Event call (itemId, 'clicked', 0, 0) and
\* nothing else; a failed Event reply changes neither the menu nor the
\* connection, so the same entries can still be activated
C25_ActivationSendsClicked ==
    [][/\ MenuStep("activateMenuItem")
            => /\ inflight \subseteq inflight'
               /\ inflight' \ inflight =
                     {MenuCall("Event", <<menuAct'.id, "clicked", 0, 0>>, menuAct'.n)}
               /\ menuAct'.id \in ActivatableIds(menuItems)
       /\ (MenuStep("event") /\ ~menuAct'.ok)
            => /\ UNCHANGED <<menuItems, tiMenu, tiLastMenuItemType, layout,
                              clicks, tiMenuPath, tiProxy, tiCancellable,
                              tiSignalIds, tiAppId, tiIcon, items, extItems>>
               /\ inflight' \subseteq inflight
               /\ ActivatableIds(menuItems') = ActivatableIds(menuItems)
      ]_vars

\* an Event call failed and the activation of another entry is enabled
C25_OthersActivatableAfterFailure ==
    /\ menuAct.did = "event"
    /\ ~menuAct.ok
    /\ tiCancellable = "live"
    /\ clicks < MaxClicks
    /\ ActivatableIds(menuItems) \ {menuAct.id} # {}


(***************************************************************************)
(* Properties of the watcher's methods.                                    *)
(***************************************************************************)
\* C26: every RegisterStatusNotifierHost call is answered with the
\* NotSupported error, emits no signal and changes nothing the Registry
\* holds
C26_HostAlwaysRejected ==
    [][hostReplies' # hostReplies
          => /\ hostReplies' =
                   Append(hostReplies, "org.freedesktop.DBus.Error.NotSupported")
             /\ emitted' = <<>>
             /\ UNCHANGED <<busState, lossPending, items, nameOwnerChangedIds,
                            cancelled, healthCheckTimeoutId, pendingDelayIds,
                            hc, seeks, resolving, enabled, extItems,
                            disabledApps, answered>>
      ]_vars

\* a host registration was rejected while an item was tracked
C26_RejectedWhileTracking ==
    /\ hostReplies = <<"org.freedesktop.DBus.Error.NotSupported">>
    /\ Len(items) > 0

\* C27: the call registers (sender, path) for an absolute path, and the
\* default item path otherwise: under the name's current owner for a
\* well-known name, under the sender when the owner cannot be resolved, and
\* under the name itself for a unique name
C27_DescriptorResolution ==
    [][regArg' # None
          => LET sender == incoming.sender
                 service == incoming.service
             IN IF StartsWith(service, "/")
                THEN regArg' = sender \o service
                ELSE IF StartsWith(service, ":")
                THEN regArg' = service \o DEFAULT_ITEM_OBJECT_PATH
                ELSE regArg' \in
                        {sender \o DEFAULT_ITEM_OBJECT_PATH} \cup
                        (IF WkOwner # None
                         THEN {WkOwner \o DEFAULT_ITEM_OBJECT_PATH} ELSE {})
      ]_vars

\* an item is tracked under a well-known name
C27_TrackedUnderWellKnownName ==
    /\ incoming.service = HyphenName
    /\ \E i \in 1..Len(items) : items[i].busName = HyphenName


(***************************************************************************)
(* Properties of the reconciliation scans and of the fallback path.        *)
(***************************************************************************)
\* scan k got the reply of its probe in this step
SeekProbeStep(k) == seeks[k].pc = "probe" /\ seeks'[k] # seeks[k]

C29_RescanAfterHealthCheck ==
    [][/\ (seeks'[2] # seeks[2] /\ seeks'[2] = SeekStarted)
            => /\ hc.pc # "done"
               /\ hc'.pc = "done"
               /\ seeks[2] = SeekIdle
       /\ (hc.pc # "done" /\ hc'.pc = "done")
            => /\ seeks'[2] = SeekStarted
               /\ \/ hc.pc = "wait"
                  \/ hc.pc \in {"settle", "props", "menu"} /\ Len(hc.stale) = 0
       /\ hc.pc = "done" => hc'.pc = "done"
       /\ (hc.pc # "wait" /\ hc'.pc = "wait")
            => /\ hc.pc \in {"pid", "cgroup"}
               /\ hc.k = Len(hc.stale)
               /\ hcAct' # NoAct
               /\ hcAct'.uniqueId = hc.stale[hc.k].uniqueId
       /\ hc.pc \in {"pid", "cgroup"}
            => /\ hc'.pc \in {"pid", "cgroup", "wait"}
               /\ hc'.pc # "wait" => /\ hc'.stale = hc.stale
                                     /\ hc'.k \in {hc.k, hc.k + 1}
               /\ (hc'.pc # "wait" /\ hc'.k # hc.k)
                     => /\ hcAct' # NoAct
                        /\ hcAct'.uniqueId = hc.stale[hc.k].uniqueId
      ]_vars

\* the health check has ended and its re-scan has listed the bus
C29_RescanStarted ==
    /\ hc.pc = "done"
    /\ ~cancelled
    /\ seeks[2].pc = "probe"

\* C30: when the proxy's initialisation fails, the connection starts the
\* direct reads of ToolTip (identity), IconThemePath (icon) and Menu, has
\* its signals subscribed, and stays as it is in the extension and in the
\* Registry
C30_FallbackOnProxyFailure ==
    [][(/\ \E c \in inflight : c.op = "ProxyInit"
        /\ ~\E c \in inflight' : c.op = "ProxyInit"
        /\ tiProxy' # "ready")
          => /\ {"ToolTip", "IconThemePath", "Menu"} \subseteq
                   {c.op : c \in inflight'}
             /\ {c.op : c \in inflight' \ inflight} \subseteq
                   {"ToolTip", "IconThemePath", "Menu"}
             /\ tiSignalIds'
             /\ tiCancellable' = tiCancellable
             /\ UNCHANGED <<items, extItems>>
      ]_vars

\* the proxy failed and the direct reads gave the connection its menu path
C30_FallbackFetchedMenuPath ==
    /\ tiProxy = "failed"
    /\ tiCancellable = "live"
    /\ tiSignalIds
    /\ tiMenuPath = itemProps.Menu
    /\ Has(items, TiUniqueId)
    /\ Has(extItems, TiUniqueId)


(***************************************************************************)
(* Properties of the icon's rendering sources                              *)
(***************************************************************************)
\* the rendering sources of the St.Icon that are set
SourcesSet == {f \in {"content", "gicon", "icon_name"} : stIcon[f] # None}

\* C31: in every reachable state of a connection exactly one of the icon's
\* rendering sources (pixmap content, file icon, icon name) is set and the
\* other two are cleared.
C31_ExactlyOneIconSource == Cardinality(SourcesSet) = 1

\* a pixmap is shown as image content after the icon name the St.Icon was
\* constructed with
C31_ContentReplacedIconName ==
    /\ tiIcon = Pixmap
    /\ stIcon.content = ImageContent
    /\ stIcon.icon_name = None


\* the operations of the icon fetch chains
IconFetches == {"ProxyInit", "IconThemePath", "IconName", "IconPixmap",
                "IconPixmapWithFallback"}

\* the sources the advertised properties p resolve to without an override
AdvertisedSources(p) ==
    IF p.IconName # None
    THEN {Named(p.IconName), File(p.IconName)}
            \cup (IF p.IconPixmap = "data" THEN {Pixmap} ELSE {})
    ELSE IF p.IconPixmap = "data" THEN {Pixmap}
    ELSE {Named(FALLBACK_ICON_NAME)}

\* C32: once every fetch of the icon chains has completed, in whatever order
\* the replies arrived, a live connection without an override for its appId
\* shows the icon resolved from the item's latest advertised properties.
C32_LatestIconAfterRaces ==
    (/\ tiProxy = "ready"
     /\ tiCancellable = "live"
     /\ \A c \in inflight : c.op \notin IconFetches
     /\ OverrideOf(iconOverrides, tiAppId) = None)
        => tiIcon \in AdvertisedSources(itemProps)

\* all fetches have completed and the icon shown is the name the item
\* advertised before its last change, which withdrew the name
C32_StaleNameShown ==
    /\ tiProxy = "ready"
    /\ tiCancellable = "live"
    /\ events = 1
    /\ inflight = {}
    /\ OverrideOf(iconOverrides, tiAppId) = None
    /\ itemProps.IconName = None
    /\ tiIcon \in {Named(<<"adv">>), File(<<"adv">>)}


(***************************************************************************)
(* Properties of the coordinator.                                          *)
(***************************************************************************)
\* C33: while the broker is alive every removal of an entry from the tracked
\* map is accompanied by exactly one ItemUnregistered emission for that id,
\* so that the tracked set stays the set of announced and not yet retracted
\* uniqueIds.
C33_RemovalsAnnounced ==
    [][ ~cancelled' =>
          \A u \in UniqueIds :
             (Has(items, u) /\ ~Has(items', u)) =>
                emitted' = <<Signal("ItemUnregistered", u)>>
      ]_vars

\* the item that registered by a call is no longer tracked although its
\* bus name is still owned and the broker is alive
C33_RemovedWithoutRetraction ==
    /\ enabled
    /\ ~cancelled
    /\ calls = 1
    /\ busState[BusName(2)] = "alive"
    /\ ~Has(items, BusName(2) \o CustomPath)
    /\ emitted = <<>>


\* C34: outside a running handler no live connection has an appId that the
\* 'disabled-apps' list contains, also when the appId was resolved after the
\* connection was created.
C34_NoDisabledConnection ==
    enabled => \A i \in 1..Len(extItems) : extItems[i].appId \notin disabledApps

\* a live connection has resolved the appId "a", which is disabled
C34_ResolvedToDisabledAppId ==
    /\ enabled
    /\ <<"a">> \in disabledApps
    /\ \E i \in 1..Len(extItems) :
          /\ extItems[i].appId = <<"a">>
          /\ Has(items, extItems[i].key)
          /\ items[IndexOf(items, extItems[i].key)].appId = <<"a">>

C38_DisableEnableRoundTrip ==
    [][ disabledApps' # disabledApps =>
          /\ Keys(items') = Keys(items)
          /\ emitted' = <<>>
          /\ \A i \in 1..Len(extItems) :
                extItems[i].appId \in disabledApps' =>
                   /\ ~Has(extItems', extItems[i].key)
                   /\ items'[IndexOf(items', extItems[i].key)].appId = extItems[i].appId
          /\ \A j \in 1..Len(items) :
                (/\ ~Has(extItems, items[j].key)
                 /\ items[j].appId \notin disabledApps'
                 /\ ExtractAppId(items[j].key) \notin disabledApps')
                   => Has(extItems', items[j].key)
      ]_vars

\* the connection of an item whose appId "a" was disabled exists again, with
\* the appId stored in the Registry's entry
C38_ConnectionCreatedAgain ==
    /\ enabled
    /\ disabledApps = {}
    /\ \E i \in 1..Len(extItems) :
          /\ Has(items, extItems[i].key)
          /\ items[IndexOf(items, extItems[i].key)].appId = <<"a">>
          /\ extItems[i].appId # <<"a">>


\* C35: after any reorder pass, a skipped one included, the left-to-right
\* panel order of the live connections is the order the pass computed from
\* the order list.
C35_PanelOrderAfterReorder ==
    [][ reorderAct'.did \in {"skipped", "reordered"} =>
          rightBox' = Keys(SortEntries(extItems, appOrder'))
      ]_vars

\* a reorder pass was skipped while the panel holds the connections in
\* another order than the coordinator's map
C35_SkippedWithPanelOutOfOrder ==
    /\ reorderAct.did = "skipped"
    /\ Len(extItems) = 2
    /\ rightBox # Keys(extItems)
    /\ rightBox # Keys(SortEntries(extItems, appOrder))


\* at most one timeout source of _scheduleReorder is pending, it is the one
\* _reorderTimeoutId names, and none is pending once the extension is
\* disabled
OneReorderTimer(sources, timeoutId, isEnabled) ==
    /\ sources <= 1
    /\ timeoutId <=> sources = 1
    /\ ~isEnabled => sources = 0

\* C40: reorder scheduling is debounced.  At most one reorder timer is
\* pending at any time; when the timer fires and the reorder pass runs, no
\* other timer is left, however many identity-resolved notifications
\* arrived before; and no timer is pending or fires once the extension is
\* disabled.
C40_ReorderDebounced ==
    [][ /\ OneReorderTimer(reorderSources, reorderTimeoutId, enabled)
        /\ OneReorderTimer(reorderSources', reorderTimeoutId', enabled')
        /\ reorderSources' < reorderSources =>
              /\ reorderSources' = 0
              /\ enabled
              /\ enabled' => reorderAct'.did \in {"skipped", "reordered"}
        /\ (reorderAct'.did # "none" /\ appOrder' = appOrder) =>
              reorderSources' < reorderSources
      ]_vars

\* two connections have notified their resolved identities and one timer
\* is pending
C40_OneTimerAfterTwoNotifications ==
    /\ enabled
    /\ reorderTimeoutId
    /\ reorderSources = 1
    /\ \E i, j \in 1..Len(extItems) :
          /\ extItems[i].appId = <<"a">>
          /\ extItems[j].appId = <<"b">>
          /\ Has(items, extItems[i].key)
          /\ items[IndexOf(items, extItems[i].key)].appId = <<"a">>
          /\ Has(items, extItems[j].key)
          /\ items[IndexOf(items, extItems[j].key)].appId = <<"b">>


(***************************************************************************)
(* Properties of the Registry after destroy.                               *)
(***************************************************************************)
\* C36: after Registry destroy the broker stays empty and silent: no step
\* adds an entry to the tracked map, subscribes a bus-identity watch, emits
\* ItemRegistered or creates a connection, also when a register call or a
\* reconciliation probe that awaited a reply at destroy time completes.
C36_SilentAfterDestroy ==
    [][ cancelled =>
          /\ items' = <<>>
          /\ nameOwnerChangedIds' = {}
          /\ extItems' = <<>>
          /\ \A u \in UniqueIds : ~SeqHas(emitted', Signal("ItemRegistered", u))
      ]_vars

\* the destroyed Registry tracks an item and watches its bus name
C36_TrackedAfterDestroy ==
    /\ cancelled
    /\ ~enabled
    /\ Len(items) > 0
    /\ nameOwnerChangedIds # {}
    /\ resolving = {}
    /\ calls = 1


(***************************************************************************)
(* Properties of identity resolution on the two paths.                     *)
(***************************************************************************)
\* a read of the fallback identity chain is among the calls cs
IdChain(cs) == \E c \in cs : c.op \in {"ToolTip", "IdIconThemePath", "Id"}

\* C39: for every combination of tooltip title, theme path and raw Id and
\* every preliminary guess, the appId a connection has when the fallback
\* fetch chain has completed is the appId the proxy-path resolution yields
\* from the same values: the proxy path ends with that appId, the chain
\* leaves appId alone until its last reply, and its last reply sets it.
C39_SameIdentityOnBothPaths ==
    [][ LET r == AppIdAfterResolve(tiAppId,
                    ResolveAppId(itemProps.ToolTip, itemProps.IconThemePath,
                                 itemProps.Id))
        IN /\ (tiProxy = "pending" /\ tiProxy' = "ready") => tiAppId' = r
           /\ (tiProxy' = "failed" /\ IdChain(inflight')) => tiAppId' = tiAppId
           /\ (tiProxy = "failed" /\ IdChain(inflight) /\ ~IdChain(inflight'))
                 => tiAppId' = r
      ]_vars

\* the fallback chain has completed for an item without a tooltip title and
\* resolved the sandbox segment of the theme path, not the raw Id
C39_FallbackResolvedSandboxId ==
    /\ tiProxy = "failed"
    /\ ~IdChain(inflight)
    /\ itemProps.ToolTip = None
    /\ itemProps.IconThemePath = FlatpakThemePath
    /\ itemProps.Id = <<"Bar">>
    /\ tiAppId = extractFlatpakAppId(FlatpakThemePath)

====
